---------------------------- MODULE Spec2Model ----------------------------
(***************************************************************************)
(* Model of the register-schema compiler of hvac-lg-therma-v               *)
(* (modbus-mapping/src/lib.rs, build.rs) and of the code it emits.         *)
(*                                                                         *)
(* Strings are sequences of characters, a character is a one-character     *)
(* TLA+ string.  A 32-bit float gain is a fixed-point number in            *)
(* thousandths (GainOne is 1.0), and a decoded float value is kept in the  *)
(* same unit.  Option<T> is the empty sequence (None) or <<x>> (Some(x)).  *)
(***************************************************************************)
EXTENDS Integers, Sequences, FiniteSets, TLC

(* ------------------------------ bounds --------------------------------- *)

\* longest description enumerated exhaustively for the identifier synthesizer
MaxNameLen == 3
\* most register entries of one schema document (all four collections together)
MaxEntries == 2
\* most words (or bits) of one raw reading handed to a decode function
MaxReadLen == 2
\* most messages the channel from the polling task to the bridge holds (the
\* program's channel holds 100)
ChannelCapacity == 1
\* most words handed to a codec function
MaxWords == 3

VARIABLES
    description,                 \* sanitize_identifier: its argument
    identifier,                  \* sanitize_identifier: its result, None before the call
    document,                    \* ./registers.json as written by the developer
    parsed,                      \* generate_registers: parsed (Registers)
    pc,                          \* position of the build script
    idx,                         \* position of the running for loop in its collection
    holding_generated_enums,
    holding_generated_structs,
    coil_generated_structs,
    discrete_generated_structs,
    input_generated_enums,
    input_generated_structs,
    code,                        \* build.rs: code, the TokenStream generate_registers returns
    outfile,                     \* ./src/registers.rs
    call,                        \* the last call of an emitted function and its outcome
    bridge,                      \* the bridge task the application is built with
    poll_pc,                     \* position of the polling task of ThermaV::new
    poll_idx,                    \* position of the running for loop in its register list
    requests,                    \* the reads the last step of the polling task issued
    logged,                      \* the decodes the last step of the polling task logged
    channel,                     \* the mpsc channel from the polling task to the bridge
    published,                   \* the last message the bridge handed to the MQTT client
    register_data,               \* a codec function: its argument
    returned,                    \* a codec function: the call made and its outcome
    ctx,                         \* ThermaV::ctx: None, or the mutex around the bus context
    bus,                         \* the requests on the serial bus that wait for their answer
    calls,                       \* the running call of a bus function of ThermaV, by task
    device,                      \* what the heat pump answers to a read
    mqtt_rx,                     \* the channel of commands received over MQTT
    interrupted,                 \* main: interrupted, the shutdown flag
    stopped,                     \* the tasks that have ended
    polled,                      \* the registers the polling task has read in this cycle
    callbacks,                   \* mqtt::Client::callbacks
    subscriptions,               \* the topic filters the broker got a subscribe request for
    subscribe_call,              \* the running call of mqtt::Client::subscribe
    dispatched                   \* the last publish the event loop took, and what it invoked

synth_vars == <<description, identifier>>
gen_vars == <<holding_generated_enums, holding_generated_structs,
              coil_generated_structs, discrete_generated_structs,
              input_generated_enums, input_generated_structs>>
build_vars == <<document, parsed, pc, idx, gen_vars, code, outfile, call>>
poll_vars == <<bridge, poll_pc, poll_idx, requests, logged, channel, published>>
codec_vars == <<register_data, returned>>
bus_vars == <<ctx, bus, calls, device, mqtt_rx, interrupted, stopped, polled>>
mqtt_vars == <<callbacks, subscriptions, subscribe_call, dispatched>>
app_vars == <<bus_vars, mqtt_vars>>
vars == <<synth_vars, build_vars, poll_vars, codec_vars, app_vars>>

None == <<>>
Some(x) == <<x>>
IsSome(o) == o # <<>>
Unwrap(o) == o[1]

(* ---------------------------- characters ------------------------------- *)

LowerCase == <<"a","b","c","d","e","f","g","h","i","j","k","l","m",
               "n","o","p","q","r","s","t","u","v","w","x","y","z">>
UpperCase == <<"A","B","C","D","E","F","G","H","I","J","K","L","M",
               "N","O","P","Q","R","S","T","U","V","W","X","Y","Z">>
Digits == {"0","1","2","3","4","5","6","7","8","9"}

Range(s) == {s[k] : k \in 1..Len(s)}

\* char::is_alphanumeric (Unicode Alphabetic or Numeric); "ß" is a letter
is_alphanumeric(c) == c \in Range(LowerCase) \cup Range(UpperCase) \cup Digits \cup {"ß"}

\* the White_Space characters str::split_whitespace splits on
is_whitespace(c) == c \in {" ", "\t", "\n"}

\* char::to_uppercase: an iterator of one or more characters ("ß" gives "SS")
to_uppercase(c) ==
    IF c \in Range(LowerCase)
    THEN <<UpperCase[CHOOSE k \in 1..Len(LowerCase) : LowerCase[k] = c]>>
    ELSE IF c = "ß" THEN <<"S", "S">> ELSE <<c>>

(* ------------------------ sanitize_identifier -------------------------- *)

RECURSIVE split_scan(_, _, _, _)
split_scan(s, k, word, words) ==
    IF k > Len(s)
    THEN IF word = <<>> THEN words ELSE Append(words, word)
    ELSE IF is_whitespace(s[k])
         THEN split_scan(s, k + 1, <<>>, IF word = <<>> THEN words ELSE Append(words, word))
         ELSE split_scan(s, k + 1, Append(word, s[k]), words)

\* str::split_whitespace: the non-empty maximal runs of non-whitespace, in order
split_whitespace(s) == split_scan(s, 1, <<>>, <<>>)

\* the closure mapped over the words
sanitize_word(word) ==
    LET sanitized_word == [k \in 1..Len(word) |->
                              IF is_alphanumeric(word[k]) THEN word[k] ELSE "_"]
    IN  IF sanitized_word = <<>>
        THEN <<>>
        ELSE to_uppercase(Head(sanitized_word)) \o Tail(sanitized_word)

RECURSIVE concat(_)
concat(words) == IF words = <<>> THEN <<>> ELSE Head(words) \o concat(Tail(words))

NotUnderscore(c) == c # "_"

\* a plausible slip: the letter after every symbol is capitalized too, not only
\* the first character of a whitespace-delimited word
sanitize_identifier_title_case(name) ==
    concat([k \in 1..Len(name) |->
               IF ~is_alphanumeric(name[k]) THEN <<>>
               ELSE IF k = 1 \/ ~is_alphanumeric(name[k - 1])
                    THEN to_uppercase(name[k]) ELSE <<name[k]>>])

\* a plausible slip: the closing replace('_', "") is forgotten
sanitize_identifier_keeps_underscores(name) ==
    LET words == [k \in 1..Len(split_whitespace(name)) |->
                     sanitize_word(split_whitespace(name)[k])]
    IN  concat(words)

sanitize_identifier(name) ==
    LET words == [k \in 1..Len(split_whitespace(name)) |->
                     sanitize_word(split_whitespace(name)[k])]
    IN  SelectSeq(concat(words), NotUnderscore)


(* --------------------- descriptions used as inputs --------------------- *)

DescWaterPumpStatus == <<"W","a","t","e","r"," ","P","u","m","p"," ","S","t","a","t","u","s">>
DescDhwHeatingStatusOnOff == <<"d","h","w"," ","h","e","a","t","i","n","g"," ","s","t","a","t","u","s"," ","(","o","n","/","o","f","f",")">>
DescTargetTempC == <<"T","a","r","g","e","t"," ","T","e","m","p"," ","(","°","C",")">>
DescOperationMode == <<"O","p","e","r","a","t","i","o","n"," ","M","o","d","e">>
DescThreeWayValve == <<"3"," ","W","a","y"," ","V","a","l","v","e">>
DescPercent == <<"(","%",")">>
DescWaterPumpStatusSlash == <<"W","a","t","e","r","-","P","u","m","p"," ","S","t","a","t","u","s","/">>
DescControlMethod == <<"C","o","n","t","r","o","l"," ","M","e","t","h","o","d">>
DescRoomTemp == <<"R","o","o","m"," ","T","e","m","p">>
DescShiftValue == <<"S","h","i","f","t"," ","V","a","l","u","e">>
DescHeatSource == <<"H","e","a","t"," ","S","o","u","r","c","e">>
DescPumpState == <<"P","u","m","p"," ","S","t","a","t","e">>
DescDefrost == <<"D","e","f","r","o","s","t">>
DescErrorCode == <<"E","r","r","o","r"," ","C","o","d","e">>
DescWaterInletTemp == <<"W","a","t","e","r"," ","I","n","l","e","t"," ","T","e","m","p",".">>
DescOutdoorTemp == <<"O","u","t","d","o","o","r"," ","T","e","m","p">>
DescFlowRate == <<"F","l","o","w"," ","R","a","t","e">>
DescSilentMode == <<"S","i","l","e","n","t"," ","M","o","d","e">>
DescEmergencyStop == <<"E","m","e","r","g","e","n","c","y"," ","S","t","o","p">>
DescShiftValue2 == <<"S","h","i","f","t"," ","V","a","l","u","e"," ","2">>
LabelAuto == <<"A","u","t","o">>
LabelHeating == <<"H","e","a","t","i","n","g">>
LabelCooling == <<"C","o","o","l","i","n","g">>
LabelOff == <<"O","f","f">>
LabelIdle == <<"i","d","l","e">>
LabelOneStep == <<"1"," ","s","t","e","p">>
IdentUnknown == <<"U","n","k","n","o","w","n">>

\* the characters the exhaustive enumeration of descriptions is built from
SynthAlphabet == {"a", "B", "7", " ", "/", "_", "ß"}

StringsUpTo(alphabet, n) == UNION {[1..m -> alphabet] : m \in 0..n}

Descriptions ==
    StringsUpTo(SynthAlphabet, MaxNameLen)
        \cup {DescWaterPumpStatus, DescDhwHeatingStatusOnOff, DescTargetTempC,
              DescOperationMode, DescThreeWayValve, DescPercent}


(* ------------------------- the schema document ------------------------- *)

\* 1f32 as a fixed-point number in thousandths
GainOne == 1000

\* An entry of the JSON document (a gain of 100 thousandths is 0.1): "enum" keeps the labels in the order they are
\* written; a key that is absent from the entry is None.
DocEntry(type, desc, reg, enum, gain) ==
    [type |-> type, description |-> desc, reg |-> reg, enum |-> enum, gain |-> gain]

OperationModeLabels == <<<<LabelAuto, 0>>, <<LabelHeating, 1>>, <<LabelCooling, 2>>>>

HoldingDocPool ==
    { DocEntry("enum", DescOperationMode, 1, Some(OperationModeLabels), None),
      DocEntry("enum", DescControlMethod, 2, None, None),
      DocEntry("float", DescTargetTempC, 3, None, None),
      DocEntry("float", DescRoomTemp, 4, None, Some(100)),
      DocEntry("i8", DescShiftValue, 5, None, None),
      DocEntry("i8", DescThreeWayValve, 6, None, None),
      DocEntry("u16", DescHeatSource, 7, None, None) }

InputDocPool ==
    { DocEntry("enum", DescDefrost, 8, Some(<<<<LabelOff, 0>>, <<LabelIdle, 0>>>>), None),
      DocEntry("enum", DescPumpState, 9, Some(<<<<LabelOff, 0>>, <<LabelOneStep, 1>>>>), None),
      DocEntry("enum", DescErrorCode, 10, Some(<<>>), None),
      DocEntry("float", DescWaterInletTemp, 11, None, Some(100)),
      DocEntry("i8", DescOutdoorTemp, 12, None, None),
      DocEntry("u16", DescFlowRate, 13, None, None) }

BoolEntry(desc, reg, t, f) ==
    [description |-> desc, reg |-> reg, values |-> [true |-> t, false |-> f]]

CoilDocPool == { BoolEntry(DescSilentMode, 3, "ON", "OFF") }

\* the two descriptions give the same identifier
DiscreteDocPool ==
    { BoolEntry(DescWaterPumpStatus, 2, "Running", "Stopped"),
      BoolEntry(DescWaterPumpStatusSlash, 4, "Running", "Stopped") }

\* the sequences of n different entries of a pool
SeqsOfLen(pool, n) ==
    {s \in [1..n -> pool] : \A j, k \in 1..n : j # k => s[j] # s[k]}

\* the documents with at most MaxEntries entries
Documents ==
    UNION { { [holding |-> h, coil |-> c, discrete |-> d, input |-> n] :
                h \in SeqsOfLen(HoldingDocPool, q[1]), c \in SeqsOfLen(CoilDocPool, q[2]),
                d \in SeqsOfLen(DiscreteDocPool, q[3]), n \in SeqsOfLen(InputDocPool, q[4]) } :
            q \in { r \in [1..4 -> 0..MaxEntries] : r[1] + r[2] + r[3] + r[4] <= MaxEntries } }

\* a document with an entry in every collection
GoodDocument ==
    [holding |-> <<DocEntry("enum", DescOperationMode, 1, Some(OperationModeLabels), None)>>,
     coil |-> <<BoolEntry(DescSilentMode, 3, "ON", "OFF")>>,
     discrete |-> <<BoolEntry(DescWaterPumpStatus, 2, "Running", "Stopped")>>,
     input |-> <<DocEntry("i8", DescOutdoorTemp, 12, None, None)>>]

\* ./registers.json does not exist or cannot be read
Unreadable == [unreadable |-> TRUE]

\* the document without one of its collections
WithoutCollection(doc, c) == [d \in DOMAIN doc \ {c} |-> doc[d]]

\* entries a developer can write that lack a required key, carry a tag of no
\* variant, or give a reg that is no u16
BadHoldingEntries ==
    { [type |-> "float", reg |-> 3, enum |-> None, gain |-> None],
      [type |-> "i8", description |-> DescShiftValue, enum |-> None, gain |-> None],
      [description |-> DescRoomTemp, reg |-> 4, enum |-> None, gain |-> None],
      DocEntry("u16", DescHeatSource, 7, None, None),
      DocEntry("i8", DescShiftValue, 65536, None, None) }
BadInputEntries ==
    { [type |-> "u16", description |-> DescFlowRate, enum |-> None, gain |-> None],
      DocEntry("bool", DescDefrost, 8, None, None) }
BadBoolEntries ==
    { [description |-> DescSilentMode, reg |-> 3],
      [reg |-> 3, values |-> [true |-> "ON", false |-> "OFF"]],
      [description |-> DescSilentMode, values |-> [true |-> "ON", false |-> "OFF"]],
      [description |-> DescSilentMode, reg |-> 3, values |-> [true |-> "ON"]] }

\* the good document with one collection missing or with one such entry after
\* the good entry of a collection, and the unreadable file
BrokenDocuments ==
    {Unreadable}
        \cup {WithoutCollection(GoodDocument, c) : c \in DOMAIN GoodDocument}
        \cup {[GoodDocument EXCEPT !.holding = Append(@, e)] : e \in BadHoldingEntries}
        \cup {[GoodDocument EXCEPT !.input = Append(@, e)] : e \in BadInputEntries}
        \cup {[GoodDocument EXCEPT !.coil = Append(@, e)] : e \in BadBoolEntries}
        \cup {[GoodDocument EXCEPT !.discrete = Append(@, e)] : e \in BadBoolEntries}

(* ----------------------------- the loader ------------------------------ *)

\* fs::read_to_string: Some(text), or None for Err
read_to_string(file) == IF "unreadable" \in DOMAIN file THEN None ELSE Some(file)

\* the fields every *Data struct requires: description: String and reg: u16
has_required(e) ==
    /\ {"description", "reg"} \subseteq DOMAIN e
    /\ e.reg \in 0..65535

\* serde's HashMap<String, u16> of an "enum" object: the order of the keys is
\* lost, and of a key written twice the last value stays
to_hash_map(pairs) ==
    [l \in {pairs[k][1] : k \in 1..Len(pairs)} |->
        pairs[CHOOSE k \in 1..Len(pairs) :
                 /\ pairs[k][1] = l
                 /\ \A j \in (k + 1)..Len(pairs) : pairs[j][1] # l][2]]

\* a plausible slip: an absent "enum" key is read as an empty mapping
EnumData_defaults_to_empty(e) ==
    [kind |-> "Enum", description |-> e.description, reg |-> e.reg,
     enum_values |-> IF IsSome(e.enum) THEN Some(to_hash_map(Unwrap(e.enum)))
                     ELSE Some(to_hash_map(<<>>))]

\* struct EnumData: "enum" is an Option
EnumData(e) ==
    [kind |-> "Enum", description |-> e.description, reg |-> e.reg,
     enum_values |-> IF IsSome(e.enum) THEN Some(to_hash_map(Unwrap(e.enum))) ELSE None]
FloatData(e) ==
    [kind |-> "Float", description |-> e.description, reg |-> e.reg, gain |-> e.gain]
SignedData(e) ==
    [kind |-> "SignedChar", description |-> e.description, reg |-> e.reg]
\* a plausible slip: the u16 tag is read as the SignedChar variant
UnsignedShortData_as_signed(e) ==
    [kind |-> "SignedChar", description |-> e.description, reg |-> e.reg]

UnsignedShortData(e) ==
    [kind |-> "UnsignedShort", description |-> e.description, reg |-> e.reg]

\* #[serde(tag = "type")] enum HoldingRegister: None is a deserialization error
\* (no tag, a tag of no variant, or a missing field of the variant's struct)
HoldingRegister(e) ==
    IF "type" \notin DOMAIN e \/ ~has_required(e) THEN None
    ELSE CASE e.type = "enum" -> Some(EnumData(e))
           [] e.type = "float" -> Some(FloatData(e))
           [] e.type = "i8" -> Some(SignedData(e))
           [] OTHER -> None

\* #[serde(tag = "type")] enum InputRegister
InputRegister(e) ==
    IF "type" \notin DOMAIN e \/ ~has_required(e) THEN None
    ELSE CASE e.type = "enum" -> Some(EnumData(e))
           [] e.type = "float" -> Some(FloatData(e))
           [] e.type = "i8" -> Some(SignedData(e))
           [] e.type = "u16" -> Some(UnsignedShortData(e))
           [] OTHER -> None

\* struct BooleanValues: both labels are required
BooleanValues(v) == IF {"true", "false"} \subseteq DOMAIN v THEN Some(v) ELSE None

\* struct CoilRegister
CoilRegister(e) ==
    IF has_required(e) /\ "values" \in DOMAIN e /\ IsSome(BooleanValues(e.values))
    THEN Some(e) ELSE None

\* struct DiscreteRegister
DiscreteRegister(e) ==
    IF has_required(e) /\ "values" \in DOMAIN e /\ IsSome(BooleanValues(e.values))
    THEN Some(e) ELSE None

\* a plausible slip: an entry that does not deserialize is skipped and the rest
\* of the document is loaded
from_str_skips_bad_entries(doc) ==
    LET HoldingOk(e) == IsSome(HoldingRegister(e))
        InputOk(e) == IsSome(InputRegister(e))
        CoilOk(e) == IsSome(CoilRegister(e))
        DiscreteOk(e) == IsSome(DiscreteRegister(e))
        holding == SelectSeq(doc.holding, HoldingOk)
        input == SelectSeq(doc.input, InputOk)
    IN  IF {"holding", "coil", "discrete", "input"} \subseteq DOMAIN doc
        THEN Some([holding |-> [k \in 1..Len(holding) |-> Unwrap(HoldingRegister(holding[k]))],
                   coil |-> SelectSeq(doc.coil, CoilOk),
                   discrete |-> SelectSeq(doc.discrete, DiscreteOk),
                   input |-> [k \in 1..Len(input) |-> Unwrap(InputRegister(input[k]))]])
        ELSE None

\* serde_json::from_str::<Registers>: Some(registers), or None for Err
from_str(doc) ==
    IF /\ {"holding", "coil", "discrete", "input"} \subseteq DOMAIN doc
       /\ \A k \in 1..Len(doc.holding) : IsSome(HoldingRegister(doc.holding[k]))
       /\ \A k \in 1..Len(doc.coil) : IsSome(CoilRegister(doc.coil[k]))
       /\ \A k \in 1..Len(doc.discrete) : IsSome(DiscreteRegister(doc.discrete[k]))
       /\ \A k \in 1..Len(doc.input) : IsSome(InputRegister(doc.input[k]))
    THEN Some([holding |-> [k \in 1..Len(doc.holding) |-> Unwrap(HoldingRegister(doc.holding[k]))],
               coil |-> doc.coil,
               discrete |-> doc.discrete,
               input |-> [k \in 1..Len(doc.input) |-> Unwrap(InputRegister(doc.input[k]))]])
    ELSE None

(* --------------------------- the generator ----------------------------- *)

\* syn::Ident::new accepts a string: it is not empty, starts with a letter or an
\* underscore, continues with letters, digits and underscores, and is not "_"
ident_ok(s) ==
    /\ s # <<>>
    /\ s # <<"_">>
    /\ Head(s) \notin Digits
    /\ \A k \in 1..Len(s) : is_alphanumeric(s[k]) \/ s[k] = "_"

\* the orders in which a HashMap over the keys of m can be iterated
IterationOrders(m) ==
    { o \in [1..Cardinality(DOMAIN m) -> DOMAIN m] :
        \A j, k \in 1..Cardinality(DOMAIN m) : j # k => o[j] # o[k] }

\* a plausible slip: the wildcard arm is pushed before the loop, so it shadows
\* every other arm
generate_enum_wildcard_first(generated_enums, enum_name, reg, reg_value, order) ==
    LET variants == [k \in 1..Len(order) |-> sanitize_identifier(order[k])]
                        \o <<IdentUnknown>>
        match_arms == <<[pattern |-> None, variant |-> IdentUnknown]>>
                        \o [k \in 1..Len(order) |->
                               [pattern |-> Some(reg[order[k]]),
                                variant |-> sanitize_identifier(order[k])]]
    IN  Append(generated_enums,
               [kind |-> "enum", name |-> enum_name, reg |-> reg_value,
                variants |-> variants, match_arms |-> match_arms])

\* a plausible slip: the Unknown variant and its arm are not added
generate_enum_no_unknown(generated_enums, enum_name, reg, reg_value, order) ==
    LET variants == [k \in 1..Len(order) |-> sanitize_identifier(order[k])]
        match_arms == [k \in 1..Len(order) |->
                          [pattern |-> Some(reg[order[k]]),
                           variant |-> sanitize_identifier(order[k])]]
    IN  Append(generated_enums,
               [kind |-> "enum", name |-> enum_name, reg |-> reg_value,
                variants |-> variants, match_arms |-> match_arms])

\* generate_enum, with the order in which `for (variant_name, value) in reg`
\* visits the map; the value is generated_enums after the push
generate_enum(generated_enums, enum_name, reg, reg_value, order) ==
    LET variants == [k \in 1..Len(order) |-> sanitize_identifier(order[k])]
                        \o <<IdentUnknown>>
        match_arms == [k \in 1..Len(order) |->
                          [pattern |-> Some(reg[order[k]]),
                           variant |-> sanitize_identifier(order[k])]]
                        \o <<[pattern |-> None, variant |-> IdentUnknown]>>
    IN  Append(generated_enums,
               [kind |-> "enum", name |-> enum_name, reg |-> reg_value,
                variants |-> variants, match_arms |-> match_arms])

\* a plausible slip: the gain of the entry is not carried into the struct
float_struct_ignores_gain(reg) ==
    [kind |-> "f32", name |-> sanitize_identifier(reg.description), reg |-> reg.reg,
     gain |-> GainOne]

\* the struct #name(f32) pushed for a Float entry
float_struct(reg) ==
    [kind |-> "f32", name |-> sanitize_identifier(reg.description), reg |-> reg.reg,
     gain |-> IF IsSome(reg.gain) THEN Unwrap(reg.gain) ELSE GainOne]

\* a plausible slip: the address is written one-based
signed_struct_one_based(reg) ==
    [kind |-> "i16", name |-> sanitize_identifier(reg.description), reg |-> reg.reg + 1]

\* the struct #name(i16) pushed for a SignedChar entry
signed_struct(reg) ==
    [kind |-> "i16", name |-> sanitize_identifier(reg.description), reg |-> reg.reg]

\* the struct #name(bool) pushed for a coil or discrete entry
bool_struct(entry) ==
    [kind |-> "bool", name |-> sanitize_identifier(entry.description), reg |-> entry.reg,
     true_value |-> entry.values.true, false_value |-> entry.values.false]


(* --------------------------- the build script -------------------------- *)

NoCall == [op |-> "none"]

\* the registers serde_json::from_str returned
Registers == Unwrap(parsed)

\* an Ident::new of the entry's arm panics
entry_panics(entry) ==
    /\ entry.kind # "UnsignedShort"
    /\ \/ ~ident_ok(sanitize_identifier(entry.description))
       \/ /\ entry.kind = "Enum"
          /\ IsSome(entry.enum_values)
          /\ \E l \in DOMAIN Unwrap(entry.enum_values) : ~ident_ok(sanitize_identifier(l))

\* a plausible slip: build.rs creates ./src/registers.rs before it calls
\* generate_registers, so a panic leaves the file empty
PanicAfterCreate ==
    /\ pc' = "panic"
    /\ outfile' = Some(<<>>)
    /\ UNCHANGED <<synth_vars, poll_vars, codec_vars, app_vars, document, parsed, idx, gen_vars, code, call>>

\* a panic (an expect, an unwrap or Ident::new) ends the build script
Panic ==
    /\ pc' = "panic"
    /\ UNCHANGED <<synth_vars, poll_vars, codec_vars, app_vars, document, parsed, idx, gen_vars, code, outfile, call>>

\* the two expect calls of generate_registers pass: the file is read and its
\* text deserializes
loads(file) ==
    /\ IsSome(read_to_string(file))
    /\ IsSome(from_str(Unwrap(read_to_string(file))))

\* generate_registers up to its first loop: read_to_string, from_str and the six
\* empty vectors
Load ==
    /\ pc = "start"
    /\ IF loads(document)
       THEN /\ parsed' = from_str(Unwrap(read_to_string(document)))
            /\ pc' = "holding"
            /\ idx' = 1
            /\ holding_generated_enums' = <<>>
            /\ holding_generated_structs' = <<>>
            /\ coil_generated_structs' = <<>>
            /\ discrete_generated_structs' = <<>>
            /\ input_generated_enums' = <<>>
            /\ input_generated_structs' = <<>>
            /\ UNCHANGED <<synth_vars, poll_vars, codec_vars, app_vars, document, code, outfile, call>>
       ELSE Panic

\* one iteration of `for entry in parsed.holding`
GenHolding ==
    /\ pc = "holding"
    /\ idx <= Len(Registers.holding)
    /\ LET entry == Registers.holding[idx]
           name == sanitize_identifier(entry.description)
       IN  IF entry_panics(entry)
           THEN Panic
           ELSE /\ idx' = idx + 1
                /\ pc' = pc
                /\ UNCHANGED <<synth_vars, poll_vars, codec_vars, app_vars, document, parsed, coil_generated_structs,
                               discrete_generated_structs, input_generated_enums,
                               input_generated_structs, code, outfile, call>>
                /\ CASE entry.kind = "Enum" ->
                          /\ IF IsSome(entry.enum_values)
                             THEN \E order \in IterationOrders(Unwrap(entry.enum_values)) :
                                     holding_generated_enums' =
                                         generate_enum(holding_generated_enums, name,
                                                       Unwrap(entry.enum_values),
                                                       entry.reg, order)
                             ELSE UNCHANGED holding_generated_enums
                          /\ UNCHANGED holding_generated_structs
                     [] entry.kind = "Float" ->
                          /\ holding_generated_structs' =
                                 Append(holding_generated_structs, float_struct(entry))
                          /\ UNCHANGED holding_generated_enums
                     [] entry.kind = "SignedChar" ->
                          /\ holding_generated_structs' =
                                 Append(holding_generated_structs, signed_struct(entry))
                          /\ UNCHANGED holding_generated_enums

\* one iteration of `for entry in parsed.input`
GenInput ==
    /\ pc = "input"
    /\ idx <= Len(Registers.input)
    /\ LET entry == Registers.input[idx]
           name == sanitize_identifier(entry.description)
       IN  IF entry_panics(entry)
           THEN Panic
           ELSE /\ idx' = idx + 1
                /\ pc' = pc
                /\ UNCHANGED <<synth_vars, poll_vars, codec_vars, app_vars, document, parsed, coil_generated_structs,
                               discrete_generated_structs, holding_generated_enums,
                               holding_generated_structs, code, outfile, call>>
                /\ CASE entry.kind = "Enum" ->
                          /\ IF IsSome(entry.enum_values)
                             THEN \E order \in IterationOrders(Unwrap(entry.enum_values)) :
                                     input_generated_enums' =
                                         generate_enum(input_generated_enums, name,
                                                       Unwrap(entry.enum_values),
                                                       entry.reg, order)
                             ELSE UNCHANGED input_generated_enums
                          /\ UNCHANGED input_generated_structs
                     [] entry.kind = "Float" ->
                          /\ input_generated_structs' =
                                 Append(input_generated_structs, float_struct(entry))
                          /\ UNCHANGED input_generated_enums
                     [] entry.kind = "SignedChar" ->
                          /\ input_generated_structs' =
                                 Append(input_generated_structs, signed_struct(entry))
                          /\ UNCHANGED input_generated_enums
                     [] entry.kind = "UnsignedShort" ->
                          UNCHANGED <<input_generated_enums, input_generated_structs>>

\* one iteration of `for entry in parsed.coil`
GenCoil ==
    /\ pc = "coil"
    /\ idx <= Len(Registers.coil)
    /\ LET entry == Registers.coil[idx]
       IN  IF ~ident_ok(sanitize_identifier(entry.description))
           THEN Panic
           ELSE /\ coil_generated_structs' = Append(coil_generated_structs, bool_struct(entry))
                /\ idx' = idx + 1
                /\ UNCHANGED <<synth_vars, poll_vars, codec_vars, app_vars, document, parsed, pc, holding_generated_enums,
                               holding_generated_structs, discrete_generated_structs,
                               input_generated_enums, input_generated_structs, code,
                               outfile, call>>

\* one iteration of `for entry in parsed.discrete`
GenDiscrete ==
    /\ pc = "discrete"
    /\ idx <= Len(Registers.discrete)
    /\ LET entry == Registers.discrete[idx]
       IN  IF ~ident_ok(sanitize_identifier(entry.description))
           THEN Panic
           ELSE /\ discrete_generated_structs' =
                       Append(discrete_generated_structs, bool_struct(entry))
                /\ idx' = idx + 1
                /\ UNCHANGED <<synth_vars, poll_vars, codec_vars, app_vars, document, parsed, pc, holding_generated_enums,
                               holding_generated_structs, coil_generated_structs,
                               input_generated_enums, input_generated_structs, code,
                               outfile, call>>

\* the collection the loop at pc runs over, and the loop that follows it
LoopOver(p) ==
    CASE p = "holding" -> Registers.holding
      [] p = "input" -> Registers.input
      [] p = "coil" -> Registers.coil
      [] p = "discrete" -> Registers.discrete
LoopAfter(p) ==
    CASE p = "holding" -> "input"
      [] p = "input" -> "coil"
      [] p = "coil" -> "discrete"
      [] p = "discrete" -> "emit"

\* a for loop of generate_registers ends and the next statement begins
LoopEnd ==
    /\ pc \in {"holding", "input", "coil", "discrete"}
    /\ idx > Len(LoopOver(pc))
    /\ pc' = LoopAfter(pc)
    /\ idx' = 1
    /\ UNCHANGED <<synth_vars, poll_vars, codec_vars, app_vars, document, parsed, gen_vars, code, outfile, call>>

\* a plausible slip: the structs of a module are written before its enums
emitted_modules_structs_first ==
    << [mod |-> "coil", items |-> coil_generated_structs],
       [mod |-> "discrete", items |-> discrete_generated_structs],
       [mod |-> "input", items |-> input_generated_structs \o input_generated_enums],
       [mod |-> "holding", items |-> holding_generated_structs \o holding_generated_enums] >>

\* the closing quote! of generate_registers: the four modules and their items, in
\* the order they are written
emitted_modules ==
    << [mod |-> "coil", items |-> coil_generated_structs],
       [mod |-> "discrete", items |-> discrete_generated_structs],
       [mod |-> "input", items |-> input_generated_enums \o input_generated_structs],
       [mod |-> "holding", items |-> holding_generated_enums \o holding_generated_structs] >>

Emit ==
    /\ pc = "emit"
    /\ code' = Some(emitted_modules)
    /\ pc' = "write"
    /\ UNCHANGED <<synth_vars, poll_vars, codec_vars, app_vars, document, parsed, idx, gen_vars, outfile, call>>

\* build.rs main after generate_registers: parse2, unparse, File::create, write_all.
\* The formatted text is kept as the token stream it renders.
WriteArtifact ==
    /\ pc = "write"
    /\ outfile' = code
    /\ pc' = "built"
    /\ UNCHANGED <<synth_vars, poll_vars, codec_vars, app_vars, document, parsed, idx, gen_vars, code, call>>

\* the build script runs again, in a new process, over the same document
Rebuild ==
    /\ pc = "built"
    /\ pc' = "start"
    /\ parsed' = None
    /\ code' = None
    /\ idx' = 1
    /\ holding_generated_enums' = <<>>
    /\ holding_generated_structs' = <<>>
    /\ coil_generated_structs' = <<>>
    /\ discrete_generated_structs' = <<>>
    /\ input_generated_enums' = <<>>
    /\ input_generated_structs' = <<>>
    /\ call' = NoCall
    /\ UNCHANGED <<synth_vars, poll_vars, codec_vars, app_vars, document, outfile>>

\* ./registers.json is lost or loses its coil collection in an edit, and the
\* build script runs again, in a new process
Damage ==
    /\ pc = "built"
    /\ document' \in {Unreadable, WithoutCollection(document, "coil")}
    /\ pc' = "start"
    /\ parsed' = None
    /\ code' = None
    /\ idx' = 1
    /\ holding_generated_enums' = <<>>
    /\ holding_generated_structs' = <<>>
    /\ coil_generated_structs' = <<>>
    /\ discrete_generated_structs' = <<>>
    /\ input_generated_enums' = <<>>
    /\ input_generated_structs' = <<>>
    /\ call' = NoCall
    /\ UNCHANGED <<synth_vars, poll_vars, codec_vars, app_vars, outfile>>


(* --------------------------- the emitted code -------------------------- *)

Ok(v) == <<"ok", v>>
Panicked == <<"panic">>

\* a plausible slip: the low byte comes first
register_to_bytes_little_endian(data) ==
    concat([k \in 1..Len(data) |-> <<data[k] % 256, (data[k] \div 256) % 256>>])

\* a plausible slip: the bytes are collected from the last word to the first
register_to_bytes_reversed(data) ==
    concat([k \in 1..Len(data) |->
               <<(data[Len(data) + 1 - k] \div 256) % 256, data[Len(data) + 1 - k] % 256>>])

\* register_to_bytes: each word as its high byte and then its low byte
register_to_bytes(data) ==
    concat([k \in 1..Len(data) |-> <<(data[k] \div 256) % 256, data[k] % 256>>])

\* i16::from_be_bytes of two bytes
i16_from_be_bytes(bytes) ==
    LET u == bytes[1] * 256 + bytes[2]
    IN  IF u >= 32768 THEN u - 65536 ELSE u

\* register_to_i16: try_into::<[u8; 2]>().unwrap() panics unless there are two bytes
register_to_i16(data) ==
    IF Len(register_to_bytes(data)) = 2
    THEN Ok(i16_from_be_bytes(register_to_bytes(data)))
    ELSE Panicked

\* u16::from_be_bytes of two bytes
u16_from_be_bytes(bytes) == bytes[1] * 256 + bytes[2]

\* register_to_u16: try_into::<[u8; 2]>().unwrap() panics unless there are two bytes
register_to_u16(data) ==
    IF Len(register_to_bytes(data)) = 2
    THEN Ok(u16_from_be_bytes(register_to_bytes(data)))
    ELSE Panicked

\* f32::from_be_bytes of four bytes: the sign bit, the 8 exponent bits and the 23
\* fraction bits of the IEEE-754 binary32 value
f32_from_be_bytes(bytes) ==
    [sign |-> bytes[1] \div 128,
     exponent |-> (bytes[1] % 128) * 2 + bytes[2] \div 128,
     fraction |-> (bytes[2] % 128) * 65536 + bytes[3] * 256 + bytes[4]]

\* a plausible slip: a short reading is padded with zero bytes and a long one is
\* cut, instead of the unwrap that panics
register_to_f32_pads(data) ==
    LET bytes == register_to_bytes(data)
    IN  Ok(f32_from_be_bytes([k \in 1..4 |-> IF k <= Len(bytes) THEN bytes[k] ELSE 0]))

\* register_to_f32: try_into::<[u8; 4]>().unwrap() panics unless there are four bytes
register_to_f32(data) ==
    IF Len(register_to_bytes(data)) = 4
    THEN Ok(f32_from_be_bytes(register_to_bytes(data)))
    ELSE Panicked

\* read_reg of the register example, after the read: the words of the response
\* as bytes, high byte first
read_reg(rsp) ==
    concat([k \in 1..Len(rsp) |-> <<(rsp[k] \div 256) % 256, rsp[k] % 256>>])

\* reg_to_u16 of the register example on a response
reg_to_u16(rsp) ==
    IF Len(read_reg(rsp)) = 2 THEN Ok(u16_from_be_bytes(read_reg(rsp))) ELSE Panicked

arm_matches(arm, v) == arm.pattern = None \/ Unwrap(arm.pattern) = v

\* match value[0] { #(#match_arms)* }: the first arm that matches
match_value(match_arms, v) ==
    match_arms[CHOOSE k \in 1..Len(match_arms) :
                  /\ arm_matches(match_arms[k], v)
                  /\ \A j \in 1..(k - 1) : ~arm_matches(match_arms[j], v)].variant

\* impl From<Vec<u16>> (From<Vec<bool>> for a bool struct) of an emitted type;
\* value[0] panics on an empty vector
from(item, value) ==
    CASE item.kind = "enum" ->
            IF Len(value) = 0 THEN Panicked ELSE Ok(match_value(item.match_arms, value[1]))
      [] item.kind = "f32" ->
            IF Len(value) = 0 THEN Panicked ELSE Ok(value[1] * item.gain)
      [] item.kind = "i16" -> register_to_i16(value)
      [] item.kind = "bool" ->
            IF Len(value) = 0 THEN Panicked ELSE Ok(value[1])

\* a plausible slip: the two labels are exchanged in the template
as_str_swapped(item, self) == IF self THEN item.false_value ELSE item.true_value

\* pub fn as_str(&self) of a bool struct: self is the bool the struct wraps
as_str(item, self) == IF self THEN item.true_value ELSE item.false_value

\* impl Display of a bool struct: write!(f, "{}", self.as_str()), the text written
fmt(item, self) == as_str(item, self)

\* rustc accepts the emitted file: the types of a module have different names
\* and the variants of an enum have different names
compiles(file) ==
    \A m \in 1..Len(file) :
        LET items == file[m].items
        IN  /\ \A j, k \in 1..Len(items) : j # k => items[j].name # items[k].name
            /\ \A k \in 1..Len(items) :
                  items[k].kind = "enum" =>
                      \A a, b \in 1..Len(items[k].variants) :
                          a # b => items[k].variants[a] # items[k].variants[b]

\* the 16-bit words a device answers with
Words == {0, 1, 2, 7, 32767, 32768, 65535}

\* the raw readings a caller hands to a decode function: every reading of one
\* unit, and one reading of each other length up to MaxReadLen
Readings(kind) ==
    IF kind = "bool"
    THEN {<<b>> : b \in BOOLEAN} \cup {[k \in 1..n |-> FALSE] : n \in (0..MaxReadLen) \ {1}}
    ELSE {<<w>> : w \in Words} \cup {[k \in 1..n |-> 0] : n \in (0..MaxReadLen) \ {1}}

\* a caller asks an emitted type for its address (the emitted functions are pure
\* and keep no state: one call is observed per build)
CallReg ==
    /\ pc = "built"
    /\ call = NoCall
    /\ compiles(Unwrap(outfile))
    /\ \E m \in 1..Len(Unwrap(outfile)) :
          \E k \in 1..Len(Unwrap(outfile)[m].items) :
              LET item == Unwrap(outfile)[m].items[k]
              IN  call' = [op |-> "reg", mod |-> Unwrap(outfile)[m].mod,
                           name |-> item.name, kind |-> item.kind, result |-> item.reg]
    /\ UNCHANGED <<synth_vars, poll_vars, codec_vars, app_vars, document, parsed, pc, idx, gen_vars, code, outfile>>

\* a caller decodes a raw reading with an emitted type
CallFrom ==
    /\ pc = "built"
    /\ call = NoCall
    /\ compiles(Unwrap(outfile))
    /\ \E m \in 1..Len(Unwrap(outfile)) :
          \E k \in 1..Len(Unwrap(outfile)[m].items) :
              LET item == Unwrap(outfile)[m].items[k]
              IN  \E value \in Readings(item.kind) :
                      call' = [op |-> "from", mod |-> Unwrap(outfile)[m].mod,
                               name |-> item.name, kind |-> item.kind,
                               value |-> value, result |-> from(item, value)]
    /\ UNCHANGED <<synth_vars, poll_vars, codec_vars, app_vars, document, parsed, pc, idx, gen_vars, code, outfile>>

\* a caller decodes a raw reading of bits with an emitted coil or discrete type
\* and renders the value, with as_str and with to_string (Display)
CallAsStr ==
    /\ pc = "built"
    /\ call = NoCall
    /\ compiles(Unwrap(outfile))
    /\ \E m \in 1..Len(Unwrap(outfile)) :
          \E k \in 1..Len(Unwrap(outfile)[m].items) :
              LET item == Unwrap(outfile)[m].items[k]
              IN  /\ item.kind = "bool"
                  /\ \E value \in Readings(item.kind) :
                         LET decoded == from(item, value)
                         IN  call' = [op |-> "as_str", mod |-> Unwrap(outfile)[m].mod,
                                      name |-> item.name, kind |-> item.kind,
                                      value |-> value,
                                      result |-> IF decoded = Panicked THEN Panicked
                                                 ELSE Ok(as_str(item, decoded[2])),
                                      display |-> IF decoded = Panicked THEN Panicked
                                                  ELSE Ok(fmt(item, decoded[2]))]
    /\ UNCHANGED <<synth_vars, poll_vars, codec_vars, app_vars, document, parsed, pc, idx, gen_vars, code, outfile>>

(* ------------------ the application: poller and bridge ----------------- *)

\* the registers.json the application is built from
PollDocument ==
    [holding |-> <<DocEntry("enum", DescOperationMode, 1, Some(OperationModeLabels), None),
                   DocEntry("float", DescRoomTemp, 4, None, Some(100)),
                   DocEntry("i8", DescShiftValue, 5, None, None),
                   DocEntry("i8", DescShiftValue2, 6, None, None)>>,
     coil |-> <<BoolEntry(DescEmergencyStop, 1, "Emergency", "Normal"),
                BoolEntry(DescSilentMode, 3, "ON", "OFF")>>,
     discrete |-> <<BoolEntry(DescWaterPumpStatus, 2, "Running", "Stopped")>>,
     input |-> <<DocEntry("float", DescWaterInletTemp, 11, None, None)>>]

\* the items of a module of ./src/registers.rs
module(mod) ==
    Unwrap(outfile)[CHOOSE m \in 1..Len(Unwrap(outfile)) : Unwrap(outfile)[m].mod = mod].items

\* the names of the generated types the application uses
EmergencyStop == sanitize_identifier(DescEmergencyStop)
SilentMode == sanitize_identifier(DescSilentMode)
WaterPumpStatus == sanitize_identifier(DescWaterPumpStatus)
WaterInletTemp == sanitize_identifier(DescWaterInletTemp)
OperationMode == sanitize_identifier(DescOperationMode)
RoomTemp == sanitize_identifier(DescRoomTemp)
ShiftValue == sanitize_identifier(DescShiftValue)
ShiftValue2 == sanitize_identifier(DescShiftValue2)

\* the type of that name in a module of ./src/registers.rs
registers(mod, name) ==
    module(mod)[CHOOSE k \in 1..Len(module(mod)) : module(mod)[k].name = name]

\* X::structure() as ThermaV::default and the polling task use it: the topic of
\* the register and its address
structure(mod, name, topic) == <<topic, registers(mod, name).reg>>

\* the four register lists of ThermaV::default
coils == <<structure("coil", SilentMode, "silent_mode")>>
discrete_registers == <<structure("discrete", WaterPumpStatus, "water_pump_status")>>
input_registers == <<structure("input", WaterInletTemp, "water_inlet_temp")>>
holding_registers ==
    <<structure("holding", OperationMode, "operation_mode"),
      structure("holding", RoomTemp, "room_temp"),
      structure("holding", ShiftValue, "shift_value"),
      structure("holding", ShiftValue2, "shift_value2")>>

remap_topic_from_modbus(topic) ==
    CASE topic = "operation_mode" -> ""
      [] topic = "target_temp_heating_cooling_circuit2" -> "dhw/temperature"
      [] topic = "room_air_temperature_circuit2" -> "dhw/current_temperature"
      [] OTHER -> topic

Err == <<"err">>

\* the words a device register holds
DeviceWords == {0, 1, 65535}

\* what the device answers to a read of cnt units: as many units as requested
answers(kind, cnt) == [1..cnt -> IF kind = "bool" THEN BOOLEAN ELSE DeviceWords]

\* the outcomes of the body the four get_* functions share: the first read
\* answers in time, or it does not and the second does, or neither does
get(read, kind, reg, cnt) ==
    LET request == [read |-> read, addr |-> reg, cnt |-> cnt]
    IN  {[requests |-> <<request>>, result |-> Ok(a)] : a \in answers(kind, cnt)}
            \cup {[requests |-> <<request, request>>, result |-> Ok(a)] :
                     a \in answers(kind, cnt)}
            \cup {[requests |-> <<request, request>>, result |-> Err]}

\* get_coil and get_discrete return result[0]
first_bit(outcomes) ==
    {[requests |-> o.requests,
      result |-> IF o.result = Err THEN Err ELSE Ok(o.result[2][1])] : o \in outcomes}

get_coil(reg) == first_bit(get("read_coils", "bool", reg, 1))
get_discrete(reg) == first_bit(get("read_discrete_inputs", "bool", reg, 1))

\* a plausible slip: two words are requested, as for an IEEE-754 float
get_holding_two_words(reg) == get("read_holding_registers", "u16", reg, 2)

get_holding(reg) == get("read_holding_registers", "u16", reg, 1)
get_input(reg) == get("read_input_registers", "u16", reg, 1)

\* ThermaV::new with the io feature: the polling task is spawned and runs
\* initialize_bus, three reads of the coil Emergency Stop whose answers are dropped
StartPoller ==
    /\ pc = "built"
    /\ poll_pc = "idle"
    /\ compiles(Unwrap(outfile))
    /\ poll_pc' = "coils"
    /\ poll_idx' = 1
    /\ requests' = [k \in 1..3 |-> [read |-> "read_coils",
                                     addr |-> registers("coil", EmergencyStop).reg,
                                     cnt |-> 1]]
    /\ UNCHANGED <<synth_vars, build_vars, codec_vars, app_vars, bridge, logged, channel, published>>

\* tx.send((register, topic)) of a read that succeeded; a failed read is logged
send(cat, reg, result, topic) ==
    IF result = Err
    THEN channel
    ELSE Append(channel, [cat |-> cat, reg |-> reg, value |-> result[2], topic |-> topic])

\* one iteration of `for (topic, reg) in instance.coils.clone()`
PollCoil ==
    /\ poll_pc = "coils"
    /\ poll_idx <= Len(coils)
    /\ Len(channel) < ChannelCapacity
    /\ \E o \in get_coil(coils[poll_idx][2]) :
          /\ requests' = o.requests
          /\ channel' = send("Coil", coils[poll_idx][2], o.result, coils[poll_idx][1])
    /\ logged' = <<>>
    /\ poll_idx' = poll_idx + 1
    /\ UNCHANGED <<synth_vars, build_vars, codec_vars, app_vars, bridge, poll_pc, published>>

\* one iteration of `for (topic, reg) in instance.discrete_registers.clone()`
PollDiscrete ==
    /\ poll_pc = "discrete"
    /\ poll_idx <= Len(discrete_registers)
    /\ Len(channel) < ChannelCapacity
    /\ \E o \in get_discrete(discrete_registers[poll_idx][2]) :
          /\ requests' = o.requests
          /\ channel' = send("Discrete", discrete_registers[poll_idx][2], o.result,
                             discrete_registers[poll_idx][1])
    /\ logged' = <<>>
    /\ poll_idx' = poll_idx + 1
    /\ UNCHANGED <<synth_vars, build_vars, codec_vars, app_vars, bridge, poll_pc, published>>

\* one iteration of `for (topic, reg) in instance.input_registers.clone()`
PollInput ==
    /\ poll_pc = "input"
    /\ poll_idx <= Len(input_registers)
    /\ Len(channel) < ChannelCapacity
    /\ \E o \in get_input(input_registers[poll_idx][2]) :
          /\ requests' = o.requests
          /\ channel' = send("Input", input_registers[poll_idx][2], o.result,
                             input_registers[poll_idx][1])
    /\ logged' = <<>>
    /\ poll_idx' = poll_idx + 1
    /\ UNCHANGED <<synth_vars, build_vars, codec_vars, app_vars, bridge, poll_pc, published>>

\* the chain of `if reg == holding::X::reg()` of the polling task: the type whose
\* address is compared and the type the value is decoded with
logged_types ==
    << <<OperationMode, OperationMode>>,
       <<RoomTemp, RoomTemp>>,
       <<ShiftValue, ShiftValue>>,
       <<ShiftValue2, ShiftValue>> >>

\* the decodes the info! lines of a forwarded holding value evaluate, in order
log_holding(reg, value) ==
    LET Hit(pair) == registers("holding", pair[1]).reg = reg
        hits == SelectSeq(logged_types, Hit)
    IN  [k \in 1..Len(hits) |->
            [name |-> registers("holding", hits[k][2]).name,
             value |-> value,
             result |-> from(registers("holding", hits[k][2]), value)]]

\* one iteration of `for (topic, reg) in instance.holding_registers.clone()`; a
\* decode that panics ends the task
PollHolding ==
    /\ poll_pc = "holding"
    /\ poll_idx <= Len(holding_registers)
    /\ Len(channel) < ChannelCapacity
    /\ \E o \in get_holding(holding_registers[poll_idx][2]) :
          /\ requests' = o.requests
          /\ channel' = send("Holding", holding_registers[poll_idx][2], o.result,
                             remap_topic_from_modbus(holding_registers[poll_idx][1]))
          /\ logged' = IF o.result = Err THEN <<>>
                       ELSE log_holding(holding_registers[poll_idx][2], o.result[2])
          /\ poll_pc' = IF \E k \in 1..Len(logged') : logged'[k].result = Panicked
                        THEN "panic" ELSE poll_pc
    /\ poll_idx' = poll_idx + 1
    /\ UNCHANGED <<synth_vars, build_vars, codec_vars, app_vars, bridge, published>>

PollList(p) ==
    CASE p = "coils" -> coils
      [] p = "discrete" -> discrete_registers
      [] p = "input" -> input_registers
      [] p = "holding" -> holding_registers
\* a plausible slip: the holding registers are polled before the input registers
PollAfter_holding_before_input(p) ==
    CASE p = "coils" -> "discrete"
      [] p = "discrete" -> "holding"
      [] p = "holding" -> "input"
      [] p = "input" -> "coils"
PollAfter(p) ==
    CASE p = "coils" -> "discrete"
      [] p = "discrete" -> "input"
      [] p = "input" -> "holding"
      [] p = "holding" -> "coils"

\* a for loop of the polling task ends and the next begins; after the last the
\* while loop starts over
PollLoopEnd ==
    /\ poll_pc \in {"coils", "discrete", "input", "holding"}
    /\ poll_idx > Len(PollList(poll_pc))
    /\ poll_pc' = PollAfter(poll_pc)
    /\ poll_idx' = 1
    /\ UNCHANGED <<synth_vars, build_vars, codec_vars, app_vars, bridge, requests, logged, channel, published>>

\* impl From<BinarySensor> for Vec<u8>
BinarySensor(value) == IF value THEN "ON" ELSE "OFF"

\* the payload the Home-Assistant bridge sends for a message: the text of a
\* binary sensor, or value[0] as f64 * 0.1 as a number in thousandths
hass_payload(msg) ==
    IF msg.cat \in {"Coil", "Discrete"}
    THEN [type |-> "text", value |-> BinarySensor(msg.value)]
    ELSE [type |-> "number", value |-> msg.value[1] * 100]

\* one iteration of the modbus -> mqtt loop of start_hass_mqtt_bridge_task that
\* receives a message
HassBridge ==
    /\ bridge = "hass"
    /\ channel # <<>>
    /\ published' = [op |-> "publish", cat |-> Head(channel).cat, reg |-> Head(channel).reg,
                     value |-> Head(channel).value,
                     topic |-> <<"ThermaV", "thermav", Head(channel).topic>>,
                     payload |-> hass_payload(Head(channel))]
    /\ channel' = Tail(channel)
    /\ UNCHANGED <<synth_vars, build_vars, codec_vars, app_vars, bridge, poll_pc, poll_idx, requests, logged>>

\* u16::to_le_bytes
to_le_bytes(num) == <<num % 256, (num \div 256) % 256>>

\* the payload start_publish_task sends for a message: the bit as one byte, or
\* the words as bytes, low byte first
mqtt_payload(msg) ==
    IF msg.cat \in {"Coil", "Discrete"}
    THEN [type |-> "bytes", value |-> <<IF msg.value THEN 1 ELSE 0>>]
    ELSE [type |-> "bytes",
          value |-> concat([k \in 1..Len(msg.value) |-> to_le_bytes(msg.value[k])])]

mqtt_topic(msg) ==
    CASE msg.cat = "Coil" -> <<"coils", msg.reg>>
      [] msg.cat = "Discrete" -> <<"discrete", msg.reg>>
      [] msg.cat = "Holding" -> <<"holding", msg.reg>>
      [] msg.cat = "Input" -> <<"input", msg.reg>>

\* one iteration of the loop of start_publish_task that receives a message
MqttBridge ==
    /\ bridge = "mqtt"
    /\ channel # <<>>
    /\ published' = [op |-> "publish", cat |-> Head(channel).cat, reg |-> Head(channel).reg,
                     value |-> Head(channel).value,
                     topic |-> mqtt_topic(Head(channel)),
                     payload |-> mqtt_payload(Head(channel))]
    /\ channel' = Tail(channel)
    /\ UNCHANGED <<synth_vars, build_vars, codec_vars, app_vars, bridge, poll_pc, poll_idx, requests, logged>>

(* ------------ the application: bus requests, tasks, shutdown ----------- *)

\* the tasks that call the bus functions of ThermaV: the polling task of
\* ThermaV::new, the mqtt -> modbus task of the bridge, and a caller of the
\* public functions
Tasks == {"poller", "command", "caller"}

\* the state of the tokio Mutex around the bus context: unlocked, or the task
\* that holds its guard
Unlocked == "unlocked"

\* no call of the task is running
IdleCall ==
    [op |-> "none", reg |-> 0, value |-> <<>>, pc |-> "none", n |-> 0,
     requests |-> <<>>, outcome |-> <<>>, result |-> <<>>]

\* a bus function of ThermaV is entered: pc is the position in its body, n the
\* attempt (or the iteration of initialize_bus), requests the requests it has put
\* on the bus, outcome what its last timeout(...).await gave
begin(op, reg, value) ==
    [op |-> op, reg |-> reg, value |-> value, pc |-> "attempt", n |-> 1,
     requests |-> <<>>, outcome |-> <<>>, result |-> <<>>]

\* the tokio-modbus function a bus function of ThermaV calls
bus_function(op) ==
    CASE op = "initialize_bus" -> "read_coils"
      [] op = "get_coil" -> "read_coils"
      [] op = "get_discrete" -> "read_discrete_inputs"
      [] op = "get_holding" -> "read_holding_registers"
      [] op = "get_input" -> "read_input_registers"
      [] op = "set_coil" -> "write_single_coil"
      [] op = "set_register" -> "write_single_register"

\* the request of a call: a read of one unit, or a write of the value
request(t, c) ==
    [task |-> t, fn |-> bus_function(c.op), addr |-> c.reg,
     arg |-> IF c.value = <<>> THEN <<1>> ELSE c.value]

\* a heat pump whose coils and discrete inputs hold bit and whose holding and
\* input registers hold word
Device(bit, word) ==
    [read_coils |-> bit, read_discrete_inputs |-> bit,
     read_holding_registers |-> word, read_input_registers |-> word]

Devices == {Device(FALSE, 0), Device(TRUE, 65535)}

\* what the device answers to a request that reaches it: the units read, or ()
response(req) ==
    IF req.fn \in DOMAIN device THEN [k \in 1..req.arg[1] |-> device[req.fn]] ELSE <<>>

\* what timeout(self.req_timeout, <request>).await can give: the answer, a Modbus
\* exception, a transport error, or Elapsed
outcomes(req) == {Ok(Ok(Ok(response(req)))), Ok(Ok(Err)), Ok(Err), Err}

\* Result::is_ok
is_ok(r) == r[1] = "ok"

\* the pattern Ok(Ok(Ok(result)))
is_answer(o) == o # <<>> /\ is_ok(o) /\ is_ok(o[2]) /\ is_ok(o[2][2])

\* a plausible slip: the loop of initialize_bus ends at the first read that is
\* not answered
initialize_bus_after_until_failure(c, o) ==
    IF c.n < 3 /\ is_answer(o)
    THEN [c EXCEPT !.n = @ + 1, !.pc = "attempt", !.outcome = o]
    ELSE [c EXCEPT !.pc = "returned", !.outcome = o, !.result = Ok(<<>>)]

\* the call after an `if let Some(ctx) = &self.ctx` block of initialize_bus that
\* gave o (<<>>: there is no context and the block was skipped)
initialize_bus_after(c, o) ==
    IF c.n < 3
    THEN [c EXCEPT !.n = @ + 1, !.pc = "attempt", !.outcome = o]
    ELSE [c EXCEPT !.pc = "returned", !.outcome = o, !.result = Ok(<<>>)]

\* set_coil and set_register: timeout(...).await.is_ok() returns Ok(()), anything
\* else, no context included, Err("set failed ...")
set_after(c, o) ==
    [c EXCEPT !.pc = "returned", !.outcome = o,
              !.result = IF o # <<>> /\ is_ok(o) THEN Ok(<<>>) ELSE Err]

\* a plausible slip: the read is not tried again
get_after_no_retry(c, o) ==
    IF is_answer(o)
    THEN [c EXCEPT !.pc = "returned", !.outcome = o,
                   !.result = Ok(IF c.op \in {"get_coil", "get_discrete"}
                                 THEN o[2][2][2][1] ELSE o[2][2][2])]
    ELSE [c EXCEPT !.pc = "returned", !.outcome = o, !.result = Err]

\* get_coil, get_discrete, get_holding and get_input: an answer returns Ok (its
\* first bit, or its words); anything else leads to the sleep after the first
\* attempt and to Err("read failed ...") after the second
get_after(c, o) ==
    IF is_answer(o)
    THEN [c EXCEPT !.pc = "returned", !.outcome = o,
                   !.result = Ok(IF c.op \in {"get_coil", "get_discrete"}
                                 THEN o[2][2][2][1] ELSE o[2][2][2])]
    ELSE IF c.n = 1
         THEN [c EXCEPT !.pc = "sleep", !.outcome = o]
         ELSE [c EXCEPT !.pc = "returned", !.outcome = o, !.result = Err]

after_attempt(c, o) ==
    CASE c.op = "initialize_bus" -> initialize_bus_after(c, o)
      [] c.op \in {"set_coil", "set_register"} -> set_after(c, o)
      [] OTHER -> get_after(c, o)

\* a plausible slip: the guard is taken without waiting for the mutex
lock_without_waiting(t) == ctx' = Some(t)

\* ctx.lock().await: the task waits until the mutex is unlocked and holds its guard
lock(t) == ctx = Some(Unlocked) /\ ctx' = Some(t)

\* `if let Some(ctx) = &self.ctx` up to the await of the request: without a
\* context the block is skipped, with one the task locks the mutex and puts its
\* request on the bus
Attempt(t) ==
    /\ calls[t].pc = "attempt"
    /\ IF ctx = None
       THEN /\ calls' = [calls EXCEPT ![t] = after_attempt(@, <<>>)]
            /\ UNCHANGED <<ctx, bus>>
       ELSE /\ lock(t)
            /\ bus' = Append(bus, request(t, calls[t]))
            /\ calls' = [calls EXCEPT ![t].pc = "request",
                                      ![t].requests = Append(@, request(t, calls[t]))]
    /\ UNCHANGED <<synth_vars, build_vars, poll_vars, codec_vars, mqtt_vars, device, mqtt_rx,
                   interrupted, stopped, polled>>

\* timeout(...).await of the request returns, and the guard, a temporary of the
\* statement, is dropped
Complete(t) ==
    /\ calls[t].pc = "request"
    /\ \E o \in outcomes(request(t, calls[t])) :
          calls' = [calls EXCEPT ![t] = after_attempt(@, o)]
    /\ LET Other(r) == r.task # t
       IN  bus' = SelectSeq(bus, Other)
    /\ ctx' = Some(Unlocked)
    /\ UNCHANGED <<synth_vars, build_vars, poll_vars, codec_vars, mqtt_vars, device, mqtt_rx,
                   interrupted, stopped, polled>>

\* tokio::time::sleep(50 ms) between the two attempts of a read
Sleep(t) ==
    /\ calls[t].pc = "sleep"
    /\ calls' = [calls EXCEPT ![t].pc = "attempt", ![t].n = 2, ![t].outcome = <<>>]
    /\ UNCHANGED <<synth_vars, build_vars, poll_vars, codec_vars, mqtt_vars, ctx, bus, device,
                   mqtt_rx, interrupted, stopped, polled>>

\* the polling task starts with instance.initialize_bus()
InitializeBus ==
    /\ poll_pc = "init"
    /\ calls["poller"].pc = "none"
    /\ calls' = [calls EXCEPT !["poller"] =
                    begin("initialize_bus", registers("coil", EmergencyStop).reg, <<>>)]
    /\ UNCHANGED <<synth_vars, build_vars, poll_vars, codec_vars, mqtt_vars, ctx, bus, device,
                   mqtt_rx, interrupted, stopped, polled>>

\* `while !shutdown_listener.load(Ordering::Relaxed)`, reached from
\* initialize_bus and from the sleep of 2000 ms that ends a cycle
While ==
    /\ \/ poll_pc = "init" /\ calls["poller"].pc = "returned"
       \/ poll_pc = "while"
    /\ IF interrupted
       THEN /\ poll_pc' = "done"
            /\ stopped' = stopped \cup {"poller"}
            /\ UNCHANGED <<poll_idx, polled>>
       ELSE /\ poll_pc' = "coils"
            /\ poll_idx' = 1
            /\ polled' = <<>>
            /\ UNCHANGED stopped
    /\ calls' = [calls EXCEPT !["poller"] = IdleCall]
    /\ UNCHANGED <<synth_vars, build_vars, codec_vars, mqtt_vars, bridge, requests, logged, channel,
                   published, ctx, bus, device, mqtt_rx, interrupted>>

PollCategory(p) ==
    CASE p = "coils" -> "Coil"
      [] p = "discrete" -> "Discrete"
      [] p = "input" -> "Input"
      [] p = "holding" -> "Holding"
PollFunction(p) ==
    CASE p = "coils" -> "get_coil"
      [] p = "discrete" -> "get_discrete"
      [] p = "input" -> "get_input"
      [] p = "holding" -> "get_holding"

\* the head of a for loop of the polling task: instance.get_*(reg) is called for
\* the next register of the list
PollGet ==
    /\ poll_pc \in {"coils", "discrete", "input", "holding"}
    /\ poll_idx <= Len(PollList(poll_pc))
    /\ calls["poller"].pc = "none"
    /\ calls' = [calls EXCEPT !["poller"] =
                    begin(PollFunction(poll_pc), PollList(poll_pc)[poll_idx][2], <<>>)]
    /\ polled' = Append(polled, <<PollCategory(poll_pc), PollList(poll_pc)[poll_idx][2]>>)
    /\ logged' = <<>>
    /\ UNCHANGED <<synth_vars, build_vars, codec_vars, mqtt_vars, bridge, poll_pc, poll_idx, requests,
                   channel, published, ctx, bus, device, mqtt_rx, interrupted, stopped>>

\* a plausible slip: try_send instead of send(..).await, which gives up on a
\* full channel
PollForward_without_waiting ==
    /\ poll_pc \in {"coils", "discrete", "input", "holding"}
    /\ calls["poller"].pc = "returned"
    /\ LET c == calls["poller"]
           topic == IF poll_pc = "holding"
                    THEN remap_topic_from_modbus(PollList(poll_pc)[poll_idx][1])
                    ELSE PollList(poll_pc)[poll_idx][1]
       IN  IF c.result = Err \/ "bridge" \in stopped \/ Len(channel) >= ChannelCapacity
           THEN /\ UNCHANGED channel
                /\ logged' = <<>>
           ELSE /\ channel' = send(PollCategory(poll_pc), c.reg, c.result, topic)
                /\ logged' = IF poll_pc = "holding"
                             THEN log_holding(c.reg, c.result[2]) ELSE <<>>
    /\ poll_pc' = IF \E k \in 1..Len(logged') : logged'[k].result = Panicked
                  THEN "panic" ELSE poll_pc
    /\ poll_idx' = poll_idx + 1
    /\ calls' = [calls EXCEPT !["poller"] = IdleCall]
    /\ UNCHANGED <<synth_vars, build_vars, codec_vars, mqtt_vars, bridge, requests, published, ctx,
                   bus, device, mqtt_rx, interrupted, stopped, polled>>

\* the match on the result of get_*: Err is logged; Ok is sent to the channel,
\* which waits while the channel is full and fails once the receiver is dropped;
\* then the sleep that ends the iteration
PollForward ==
    /\ poll_pc \in {"coils", "discrete", "input", "holding"}
    /\ calls["poller"].pc = "returned"
    /\ LET c == calls["poller"]
           topic == IF poll_pc = "holding"
                    THEN remap_topic_from_modbus(PollList(poll_pc)[poll_idx][1])
                    ELSE PollList(poll_pc)[poll_idx][1]
       IN  IF c.result = Err \/ "bridge" \in stopped
           THEN /\ UNCHANGED channel
                /\ logged' = <<>>
           ELSE /\ Len(channel) < ChannelCapacity
                /\ channel' = send(PollCategory(poll_pc), c.reg, c.result, topic)
                /\ logged' = IF poll_pc = "holding"
                             THEN log_holding(c.reg, c.result[2]) ELSE <<>>
    /\ poll_pc' = IF \E k \in 1..Len(logged') : logged'[k].result = Panicked
                  THEN "panic" ELSE poll_pc
    /\ poll_idx' = poll_idx + 1
    /\ calls' = [calls EXCEPT !["poller"] = IdleCall]
    /\ UNCHANGED <<synth_vars, build_vars, codec_vars, mqtt_vars, bridge, requests, published, ctx,
                   bus, device, mqtt_rx, interrupted, stopped, polled>>

\* a for loop of the polling task ends and the next begins; after the last the
\* task sleeps 2000 ms and evaluates the while condition
PollListEnd ==
    /\ poll_pc \in {"coils", "discrete", "input", "holding"}
    /\ poll_idx > Len(PollList(poll_pc))
    /\ calls["poller"].pc = "none"
    /\ poll_pc' = IF poll_pc = "holding" THEN "while" ELSE PollAfter(poll_pc)
    /\ poll_idx' = 1
    /\ UNCHANGED <<synth_vars, build_vars, codec_vars, app_vars, bridge, requests, logged,
                   channel, published>>

\* the one topic the mqtt -> modbus task acts on
SetTopic == "ThermaV/thermav.dhw/temperature/set"

\* the address the task writes: holding::TargetTempHeatingCoolingCircuit2::reg()
\* in the application; the float type of the document stands for it
SetReg == registers("holding", RoomTemp).reg

\* the surroundings the application runs in: the heat pump, and the commands
\* that arrive over MQTT, in their order
Environments ==
    { [device |-> Device(TRUE, 65535), commands |-> <<>>],
      [device |-> Device(FALSE, 0),
       commands |-> << <<SetTopic, "true">>, <<"thermav.dhw/temperature/set", "true">> >>] }

\* a plausible slip: the topic is matched without the base topic of the device
CommandReceive_without_base_topic ==
    /\ "command" \notin stopped
    /\ ~interrupted
    /\ calls["command"].pc \in {"none", "returned"}
    /\ mqtt_rx # <<>>
    /\ mqtt_rx' = Tail(mqtt_rx)
    /\ calls' = [calls EXCEPT !["command"] =
                    IF Head(mqtt_rx)[1] \in {SetTopic, "thermav.dhw/temperature/set"}
                    THEN begin("set_coil", SetReg, <<Head(mqtt_rx)[2] = "true">>)
                    ELSE IdleCall]
    /\ UNCHANGED <<synth_vars, build_vars, poll_vars, codec_vars, mqtt_vars, ctx, bus, device,
                   interrupted, stopped, polled>>

\* an iteration of the mqtt -> modbus loop that receives a command: the flag is
\* not set, try_recv gives (topic, payload), and the match calls set_coil or not
CommandReceive ==
    /\ "command" \notin stopped
    /\ ~interrupted
    /\ calls["command"].pc \in {"none", "returned"}
    /\ mqtt_rx # <<>>
    /\ mqtt_rx' = Tail(mqtt_rx)
    /\ calls' = [calls EXCEPT !["command"] =
                    IF Head(mqtt_rx)[1] = SetTopic
                    THEN begin("set_coil", SetReg, <<Head(mqtt_rx)[2] = "true">>)
                    ELSE IdleCall]
    /\ UNCHANGED <<synth_vars, build_vars, poll_vars, codec_vars, mqtt_vars, ctx, bus, device,
                   interrupted, stopped, polled>>

\* a plausible slip: the loop waits in recv().await and looks at the flag only
\* when a message has arrived
CommandStop_after_message ==
    /\ "command" \notin stopped
    /\ interrupted
    /\ calls["command"].pc \in {"none", "returned"}
    /\ mqtt_rx # <<>>
    /\ stopped' = stopped \cup {"command"}
    /\ UNCHANGED <<synth_vars, build_vars, poll_vars, codec_vars, mqtt_vars, ctx, bus, calls, device,
                   mqtt_rx, interrupted, polled>>

\* the iteration of the mqtt -> modbus loop that finds the flag set: return
CommandStop ==
    /\ "command" \notin stopped
    /\ interrupted
    /\ calls["command"].pc \in {"none", "returned"}
    /\ stopped' = stopped \cup {"command"}
    /\ UNCHANGED <<synth_vars, build_vars, poll_vars, codec_vars, mqtt_vars, ctx, bus, calls, device,
                   mqtt_rx, interrupted, polled>>

\* an iteration of the modbus -> mqtt loop that receives a message: the flag is
\* not set and try_recv gives the oldest message of the channel
BridgeReceive ==
    /\ "bridge" \notin stopped
    /\ ~interrupted
    /\ channel # <<>>
    /\ channel' = Tail(channel)
    /\ UNCHANGED <<synth_vars, build_vars, codec_vars, app_vars, bridge, poll_pc, poll_idx,
                   requests, logged, published>>

\* the iteration of the modbus -> mqtt loop that finds the flag set: break, and
\* the receiver is dropped with the messages it holds
BridgeStop ==
    /\ "bridge" \notin stopped
    /\ interrupted
    /\ stopped' = stopped \cup {"bridge"}
    /\ channel' = <<>>
    /\ UNCHANGED <<synth_vars, build_vars, codec_vars, mqtt_vars, bridge, poll_pc, poll_idx, requests,
                   logged, published, ctx, bus, calls, device, mqtt_rx, interrupted,
                   polled>>

\* main after start_service returned: interrupted.store(true)
Interrupt ==
    /\ ~interrupted
    /\ interrupted' = TRUE
    /\ UNCHANGED <<synth_vars, build_vars, poll_vars, codec_vars, mqtt_vars, ctx, bus, calls, device,
                   mqtt_rx, stopped, polled>>

(* --------------------------- the MQTT client --------------------------- *)

\* the topic filters subscribe is called with and the topics publishes arrive on
ModeTopic == "ThermaV/thermav.dhw/mode/set"
Wildcard == "ThermaV/thermav.dhw/+/set"
TopicFilters == {SetTopic, Wildcard}
PublishTopics == {SetTopic, ModeTopic}

\* the broker sends a publish to the client if one of its subscriptions matches
matches(filter, topic) == filter = topic \/ (filter = Wildcard /\ topic \in PublishTopics)

\* the closures passed to subscribe
Callbacks == {"f", "g"}

\* payloads of publishes, as bytes: "1", the two bytes of U+00E9, "1" followed
\* by a byte that is never part of UTF-8, and a lead byte without its second
Payloads == {<<49>>, <<195, 169>>, <<49, 255>>, <<195>>}

\* String::from_utf8_lossy(..).to_string(), as code points, for bytes without the
\* lead bytes of three and four byte sequences: an ASCII byte and a two byte
\* sequence are decoded, any other byte becomes U+FFFD
RECURSIVE from_utf8_lossy(_)
from_utf8_lossy(bytes) ==
    IF bytes = <<>> THEN <<>>
    ELSE LET b == Head(bytes)
         IN  IF b < 128 THEN <<b>> \o from_utf8_lossy(Tail(bytes))
             ELSE IF /\ b >= 194
                     /\ b <= 223
                     /\ Len(bytes) >= 2
                     /\ bytes[2] >= 128
                     /\ bytes[2] <= 191
                  THEN <<(b - 192) * 64 + (bytes[2] - 128)>>
                           \o from_utf8_lossy(Tail(Tail(bytes)))
                  ELSE <<65533>> \o from_utf8_lossy(Tail(bytes))

NoCallbacks == [t \in {} |-> "f"]

\* HashMap::insert
insert(map, k, v) == [t \in DOMAIN map \cup {k} |-> IF t = k THEN v ELSE map[t]]

\* a plausible slip: the request goes to the broker before the callback is stored
subscribe_steps_request_first == <<"request", "insert">>

\* the body of subscribe: the block that inserts under the write guard, then
\* self.mqtt_client.subscribe(topic, QoS::AtLeastOnce).await
subscribe_steps == <<"insert", "request">>

subscribe_next(c) ==
    IF c.pc = Len(subscribe_steps) THEN None ELSE Some([c EXCEPT !.pc = @ + 1])

\* client.subscribe(topic, callback) is called
SubscribeCall ==
    /\ subscribe_call = None
    /\ \E topic \in TopicFilters, callback \in Callbacks :
          subscribe_call' = Some([topic |-> topic, callback |-> callback, pc |-> 1])
    /\ UNCHANGED <<synth_vars, build_vars, poll_vars, codec_vars, bus_vars, callbacks,
                   subscriptions, dispatched>>

\* callbacks.insert(topic.clone(), callback) under the write guard
SubscribeInsert ==
    /\ subscribe_call # None
    /\ LET c == subscribe_call[1]
       IN  /\ subscribe_steps[c.pc] = "insert"
           /\ callbacks' = insert(callbacks, c.topic, c.callback)
           /\ subscribe_call' = subscribe_next(c)
    /\ UNCHANGED <<synth_vars, build_vars, poll_vars, codec_vars, bus_vars, subscriptions,
                   dispatched>>

\* self.mqtt_client.subscribe(topic, QoS::AtLeastOnce).await: the request is
\* handed to the event loop, or the call fails with a ClientError
SubscribeRequest ==
    /\ subscribe_call # None
    /\ LET c == subscribe_call[1]
       IN  /\ subscribe_steps[c.pc] = "request"
           /\ \E sent \in BOOLEAN :
                 subscriptions' = IF sent THEN subscriptions \cup {c.topic} ELSE subscriptions
           /\ subscribe_call' = subscribe_next(c)
    /\ UNCHANGED <<synth_vars, build_vars, poll_vars, codec_vars, bus_vars, callbacks,
                   dispatched>>

\* the event loop polls Event::Incoming(Packet::Publish(publish)): under the
\* write guard the callback stored for the topic, if any, is called
EventLoopPublish ==
    /\ \E topic \in PublishTopics, payload \in Payloads :
          /\ \E filter \in subscriptions : matches(filter, topic)
          /\ dispatched' =
                 Some([topic |-> topic, payload |-> payload,
                       invoked |-> IF topic \in DOMAIN callbacks
                                   THEN <<[callback |-> callbacks[topic], topic |-> topic,
                                           payload |-> from_utf8_lossy(payload)]>>
                                   ELSE <<>>])
    /\ UNCHANGED <<synth_vars, build_vars, poll_vars, codec_vars, bus_vars, callbacks,
                   subscriptions, subscribe_call>>

(* --------------------------- specifications ---------------------------- *)

SynthIdle == description = <<>> /\ identifier = None

BuildIdle ==
    /\ document = [holding |-> <<>>, coil |-> <<>>, discrete |-> <<>>, input |-> <<>>]
    /\ parsed = None
    /\ pc = "idle"
    /\ idx = 1
    /\ holding_generated_enums = <<>>
    /\ holding_generated_structs = <<>>
    /\ coil_generated_structs = <<>>
    /\ discrete_generated_structs = <<>>
    /\ input_generated_enums = <<>>
    /\ input_generated_structs = <<>>
    /\ code = None
    /\ outfile = None
    /\ call = NoCall

NoPublish == [op |-> "none"]

\* the application does not run
PollIdle ==
    /\ bridge = "none"
    /\ poll_pc = "idle"
    /\ poll_idx = 1
    /\ requests = <<>>
    /\ logged = <<>>
    /\ channel = <<>>
    /\ published = NoPublish

\* no codec function is called
CodecIdle == register_data = <<>> /\ returned = NoCall

\* no task runs and nothing is on the bus
BusIdle ==
    /\ ctx = None
    /\ bus = <<>>
    /\ calls = [t \in Tasks |-> IdleCall]
    /\ device = Device(FALSE, 0)
    /\ mqtt_rx = <<>>
    /\ interrupted = FALSE
    /\ stopped = {}
    /\ polled = <<>>

\* the MQTT client has no callback and no publish has arrived
MqttIdle ==
    /\ callbacks = NoCallbacks
    /\ subscriptions = {}
    /\ subscribe_call = None
    /\ dispatched = None

AppIdle == BusIdle /\ MqttIdle

\* the build script starts on a document; ./src/registers.rs does not exist yet
Init ==
    /\ SynthIdle
    /\ PollIdle
    /\ CodecIdle
    /\ AppIdle
    /\ document \in Documents \cup BrokenDocuments
    /\ parsed = None
    /\ pc = "start"
    /\ idx = 1
    /\ holding_generated_enums = <<>>
    /\ holding_generated_structs = <<>>
    /\ coil_generated_structs = <<>>
    /\ discrete_generated_structs = <<>>
    /\ input_generated_enums = <<>>
    /\ input_generated_structs = <<>>
    /\ code = None
    /\ outfile = None
    /\ call = NoCall

Next ==
    \/ Load
    \/ GenHolding
    \/ GenInput
    \/ GenCoil
    \/ GenDiscrete
    \/ LoopEnd
    \/ Emit
    \/ WriteArtifact
    \/ Rebuild
    \/ Damage
    \/ CallReg
    \/ CallFrom
    \/ CallAsStr

Spec == Init /\ [][Next]_vars

\* the application is built from its registers.json, with one of the two bridges,
\* and started
PollInit ==
    /\ SynthIdle
    /\ document = PollDocument
    /\ parsed = None
    /\ pc = "start"
    /\ idx = 1
    /\ holding_generated_enums = <<>>
    /\ holding_generated_structs = <<>>
    /\ coil_generated_structs = <<>>
    /\ discrete_generated_structs = <<>>
    /\ input_generated_enums = <<>>
    /\ input_generated_structs = <<>>
    /\ code = None
    /\ outfile = None
    /\ call = NoCall
    /\ bridge \in {"hass", "mqtt"}
    /\ poll_pc = "idle"
    /\ poll_idx = 1
    /\ requests = <<>>
    /\ logged = <<>>
    /\ channel = <<>>
    /\ published = NoPublish
    /\ CodecIdle
    /\ AppIdle

PollNext ==
    \/ Load
    \/ GenHolding
    \/ GenInput
    \/ GenCoil
    \/ GenDiscrete
    \/ LoopEnd
    \/ Emit
    \/ WriteArtifact
    \/ StartPoller
    \/ PollCoil
    \/ PollDiscrete
    \/ PollInput
    \/ PollHolding
    \/ PollLoopEnd
    \/ HassBridge
    \/ MqttBridge

PollSpec == PollInit /\ [][PollNext]_vars

\* the words the codec functions are called on
CodecWords == {0, 1, 255, 256, 16320, 65535}

\* a codec function of ./src/registers.rs, or of the register example, is called
\* on the words
Codec(op, result) ==
    /\ returned = NoCall
    /\ returned' = [op |-> op, result |-> result]
    /\ UNCHANGED <<synth_vars, build_vars, poll_vars, app_vars, register_data>>

CallRegisterToBytes == Codec("register_to_bytes", register_to_bytes(register_data))
CallRegisterToF32 == Codec("register_to_f32", register_to_f32(register_data))
CallRegisterToU16 == Codec("register_to_u16", register_to_u16(register_data))
CallRegisterToI16 == Codec("register_to_i16", register_to_i16(register_data))
CallReadReg == Codec("read_reg", read_reg(register_data))
CallRegToU16 == Codec("reg_to_u16", reg_to_u16(register_data))

CodecInit ==
    /\ SynthIdle
    /\ BuildIdle
    /\ PollIdle
    /\ register_data \in UNION {[1..n -> CodecWords] : n \in 0..MaxWords}
    /\ returned = NoCall
    /\ AppIdle

CodecNext ==
    \/ CallRegisterToBytes
    \/ CallRegisterToF32
    \/ CallRegisterToU16
    \/ CallRegisterToI16
    \/ CallReadReg
    \/ CallRegToU16

CodecSpec == CodecInit /\ [][CodecNext]_vars

\* the code generate_registers gives for the registers.json of the application,
\* its one enum written in the order of the document
BuiltEnums ==
    generate_enum(<<>>, OperationMode,
                  Unwrap(Unwrap(from_str(PollDocument)).holding[1].enum_values),
                  Unwrap(from_str(PollDocument)).holding[1].reg,
                  <<LabelAuto, LabelHeating, LabelCooling>>)

\* the application is built from its registers.json with the features io, mqtt
\* and hass, ThermaV::new has opened the bus and spawned the polling task, the
\* bridge has spawned its two tasks; the commands that will arrive are queued
BusInitIn(environments) ==
    /\ SynthIdle
    /\ CodecIdle
    /\ document = PollDocument
    /\ parsed = from_str(PollDocument)
    /\ pc = "built"
    /\ idx = 1
    /\ holding_generated_enums = BuiltEnums
    /\ holding_generated_structs =
           <<float_struct(Registers.holding[2]), signed_struct(Registers.holding[3]),
             signed_struct(Registers.holding[4])>>
    /\ coil_generated_structs = [k \in 1..Len(Registers.coil) |-> bool_struct(Registers.coil[k])]
    /\ discrete_generated_structs =
           [k \in 1..Len(Registers.discrete) |-> bool_struct(Registers.discrete[k])]
    /\ input_generated_enums = <<>>
    /\ input_generated_structs = <<float_struct(Registers.input[1])>>
    /\ code = Some(emitted_modules)
    /\ outfile = code
    /\ call = NoCall
    /\ bridge = "hass"
    /\ poll_pc = "init"
    /\ poll_idx = 1
    /\ requests = <<>>
    /\ logged = <<>>
    /\ channel = <<>>
    /\ published = NoPublish
    /\ ctx = Some(Unlocked)
    /\ bus = <<>>
    /\ calls = [t \in Tasks |-> IdleCall]
    /\ \E e \in environments :
          /\ device = e.device
          /\ mqtt_rx = e.commands
    /\ interrupted = FALSE
    /\ stopped = {}
    /\ polled = <<>>
    /\ MqttIdle

BusInit == BusInitIn(Environments)

BusNext ==
    \/ InitializeBus
    \/ While
    \/ PollGet
    \/ PollForward
    \/ PollListEnd
    \/ \E t \in {"poller", "command"} : Attempt(t)
    \/ \E t \in {"poller", "command"} : Complete(t)
    \/ Sleep("poller")
    \/ CommandReceive
    \/ CommandStop
    \/ BridgeReceive
    \/ BridgeStop
    \/ Interrupt

BusSpec == BusInit /\ [][BusNext]_vars

\* the steps of the three tasks; the answer of the device, or the timeout of
\* the request, is a step of the task that waits for it
PollingTask ==
    \/ InitializeBus
    \/ While
    \/ PollGet
    \/ PollForward
    \/ PollListEnd
    \/ Attempt("poller")
    \/ Complete("poller")
    \/ Sleep("poller")
MqttToModbusTask ==
    \/ CommandReceive
    \/ CommandStop
    \/ Attempt("command")
    \/ Complete("command")
ModbusToMqttTask ==
    \/ BridgeReceive
    \/ BridgeStop

\* the tokio scheduler runs every task that can take a step, a sleep and the
\* timeout of a request end, and the mutex is unlocked after every request
BusFairness ==
    /\ WF_vars(PollingTask)
    /\ WF_vars(MqttToModbusTask)
    /\ WF_vars(ModbusToMqttTask)

\* the shutdown is followed with one command waiting on the mqtt side
ShutdownEnvironments ==
    { [device |-> Device(FALSE, 0), commands |-> << <<SetTopic, "true">> >>] }

BusFairSpec == BusInitIn(ShutdownEnvironments) /\ [][BusNext]_vars /\ BusFairness

\* the registers and values the public bus functions are called with
CallInputs ==
    {begin(op, reg, <<>>) :
        op \in {"get_coil", "get_discrete", "get_holding", "get_input"}, reg \in {1, 4}}
        \cup {begin("set_coil", reg, <<v>>) : reg \in {1, 4}, v \in BOOLEAN}
        \cup {begin("set_register", reg, <<v>>) : reg \in {1, 4}, v \in {0, 550}}

\* a bus function of a ThermaV, built by ThermaV::default with or without a bus
\* context, is called
CallInit ==
    /\ SynthIdle
    /\ BuildIdle
    /\ PollIdle
    /\ CodecIdle
    /\ ctx \in {None, Some(Unlocked)}
    /\ bus = <<>>
    /\ calls \in {[t \in Tasks |-> IF t = "caller" THEN c ELSE IdleCall] : c \in CallInputs}
    /\ device \in Devices
    /\ mqtt_rx = <<>>
    /\ interrupted = FALSE
    /\ stopped = {}
    /\ polled = <<>>
    /\ MqttIdle

CallNext ==
    \/ Attempt("caller")
    \/ Complete("caller")
    \/ Sleep("caller")

CallSpec == CallInit /\ [][CallNext]_vars

\* an MQTT client is created; subscribe is called and publishes arrive
MqttInit ==
    /\ SynthIdle
    /\ BuildIdle
    /\ PollIdle
    /\ CodecIdle
    /\ BusIdle
    /\ MqttIdle

MqttNext ==
    \/ SubscribeCall
    \/ SubscribeInsert
    \/ SubscribeRequest
    \/ EventLoopPublish

MqttSpec == MqttInit /\ [][MqttNext]_vars

\* sanitize_identifier is called on a description
Synthesize ==
    /\ identifier = None
    /\ identifier' = Some(sanitize_identifier(description))
    /\ UNCHANGED <<description, build_vars, poll_vars, codec_vars, app_vars>>

SynthInit ==
    /\ description \in Descriptions
    /\ identifier = None
    /\ BuildIdle
    /\ PollIdle
    /\ CodecIdle
    /\ AppIdle

SynthNext == Synthesize

SynthSpec == SynthInit /\ [][SynthNext]_vars


(* ------------------------------ the claims ----------------------------- *)

IdentOperationMode == <<"O","p","e","r","a","t","i","o","n","M","o","d","e">>
IdentHeating == <<"H","e","a","t","i","n","g">>

\* the entry at position k of a parsed collection is the one an emitted type of
\* that module, kind and name was generated from
GeneratedFrom(mod, k, kind, name) ==
    LET e == Registers[mod][k]
    IN  /\ sanitize_identifier(e.description) = name
        /\ \/ mod \in {"coil", "discrete"} /\ kind = "bool"
           \/ /\ mod \in {"holding", "input"}
              /\ \/ kind = "enum" /\ e.kind = "Enum" /\ IsSome(e.enum_values)
                 \/ kind = "f32" /\ e.kind = "Float"
                 \/ kind = "i16" /\ e.kind = "SignedChar"

\* the last call decoded a reading of exactly one unit with a type of that kind
DecodedOne(kind) ==
    /\ call.op = "from"
    /\ call.kind = kind
    /\ Len(call.value) = 1

\* C1: decoding a one-word reading [c] with a generated enum returns the variant
\* of a label whose declared code is c when the register's enum mapping holds c,
\* and Unknown when it does not; every code decodes to one variant of the enum.
C1_EnumDecodeTotal ==
    DecodedOne("enum") =>
        /\ \E k \in 1..Len(Registers[call.mod]) :
              GeneratedFrom(call.mod, k, "enum", call.name)
        /\ \A k \in 1..Len(Registers[call.mod]) :
              GeneratedFrom(call.mod, k, "enum", call.name) =>
                  LET enum_values == Unwrap(Registers[call.mod][k].enum_values)
                      c == call.value[1]
                  IN  /\ call.result[1] = "ok"
                      /\ IF \E l \in DOMAIN enum_values : enum_values[l] = c
                         THEN \E l \in DOMAIN enum_values :
                                 /\ enum_values[l] = c
                                 /\ call.result[2] = sanitize_identifier(l)
                         ELSE call.result[2] = IdentUnknown

\* C1 happens: Operation Mode decodes [1] to Heating
C1_Witness ==
    /\ DecodedOne("enum")
    /\ call.name = IdentOperationMode
    /\ call.value = <<1>>
    /\ call.result = Ok(IdentHeating)

\* the entries of a parsed collection that generate_enum is called for, in order
IsEnumWithValues(e) == e.kind = "Enum" /\ IsSome(e.enum_values)
EnumEntries(mod) == SelectSeq(Registers[mod], IsEnumWithValues)

\* the enums generated for a collection once its loop has ended
GeneratedEnums(mod) ==
    IF mod = "holding" THEN holding_generated_enums ELSE input_generated_enums

Generated == pc \in {"emit", "write", "built"}

\* C2: when generation has ended, every enum register of the holding and input
\* collections has |enum_values| + 1 generated variants and as many match arms:
\* one per declared label and the Unknown fallback.
C2_VariantCount ==
    Generated =>
        \A mod \in {"holding", "input"} :
            /\ Len(GeneratedEnums(mod)) = Len(EnumEntries(mod))
            /\ \A j \in 1..Len(EnumEntries(mod)) :
                  LET n == Cardinality(DOMAIN Unwrap(EnumEntries(mod)[j].enum_values))
                  IN  /\ Len(GeneratedEnums(mod)[j].variants) = n + 1
                      /\ Len(GeneratedEnums(mod)[j].match_arms) = n + 1

\* C2 happens: an enum with three labels was generated with four variants
C2_Witness ==
    /\ Generated
    /\ \E j \in 1..Len(holding_generated_enums) :
          /\ Cardinality(DOMAIN Unwrap(EnumEntries("holding")[j].enum_values)) = 3
          /\ Len(holding_generated_enums[j].variants) = 4


\* C3: a run of the build script over the document an earlier run compiled
\* writes again, byte for byte, the artifact that is already in
\* ./src/registers.rs, the order of enum variants and match arms included.
C3_Deterministic ==
    [][(pc = "write" /\ IsSome(outfile)) => outfile' = outfile]_vars

\* the document of the end-to-end scenario
ScenarioDocument ==
    [holding |-> <<DocEntry("enum", DescOperationMode, 1, Some(OperationModeLabels), None)>>,
     coil |-> <<>>, discrete |-> <<>>, input |-> <<>>]

\* the labels of the enum entries of a collection of the document, one sequence
\* of labels per entry, as written
DeclaredLabels(mod) ==
    LET HasLabels(e) == e.type = "enum" /\ IsSome(e.enum)
        entries == SelectSeq(document[mod], HasLabels)
    IN  [j \in 1..Len(entries) |->
            [k \in 1..Len(Unwrap(entries[j].enum)) |-> Unwrap(entries[j].enum)[k][1]]]

\* C4: the variants of a generated enum are the labels in the order the document
\* declares them, then Unknown; the scenario document compiles to the one enum
\* OperationMode with variants Auto, Heating, Cooling, Unknown, reg() = 1,
\* decode([1]) = Heating and decode([7]) = Unknown.
C4_DeclarationOrder ==
    /\ Generated =>
          \A mod \in {"holding", "input"} :
              \A j \in 1..Len(GeneratedEnums(mod)) :
                  GeneratedEnums(mod)[j].variants =
                      [k \in 1..Len(DeclaredLabels(mod)[j]) |->
                          sanitize_identifier(DeclaredLabels(mod)[j][k])] \o <<IdentUnknown>>
    /\ (document = ScenarioDocument /\ pc = "built") =>
          /\ Len(Unwrap(outfile)[4].items) = 1
          /\ Unwrap(outfile)[4].items[1].name = IdentOperationMode
          /\ Unwrap(outfile)[4].items[1].variants =
                 <<LabelAuto, LabelHeating, LabelCooling, IdentUnknown>>
          /\ call.op = "reg" => call.result = 1
          /\ (call.op = "from" /\ call.value = <<1>>) => call.result = Ok(IdentHeating)
          /\ (call.op = "from" /\ call.value = <<7>>) => call.result = Ok(IdentUnknown)

\* C5 as stated: "Water Pump Status" gives "WaterPumpStatus" and
\* "dhw heating status (on/off)" gives "DhwHeatingStatusOnOff".
C5_AsStated ==
    IsSome(identifier) =>
        /\ description = DescWaterPumpStatus =>
               Unwrap(identifier) = <<"W","a","t","e","r","P","u","m","p","S","t","a","t","u","s">>
        /\ description = DescDhwHeatingStatusOnOff =>
               Unwrap(identifier) = <<"D","h","w","H","e","a","t","i","n","g","S","t","a","t","u","s","O","n","O","f","f">>

\* C5, amended: "Water Pump Status" gives "WaterPumpStatus" and
\* "dhw heating status (on/off)" gives "DhwHeatingStatusonoff": a symbol vanishes
\* without starting a word, and only a letter that begins a whitespace-delimited
\* word is capitalized.
C5_Examples ==
    IsSome(identifier) =>
        /\ description = DescWaterPumpStatus =>
               Unwrap(identifier) = <<"W","a","t","e","r","P","u","m","p","S","t","a","t","u","s">>
        /\ description = DescDhwHeatingStatusOnOff =>
               Unwrap(identifier) = <<"D","h","w","H","e","a","t","i","n","g","S","t","a","t","u","s","o","n","o","f","f">>

\* C5 happens: sanitize_identifier returned for "dhw heating status (on/off)"
C5_Witness ==
    /\ description = DescDhwHeatingStatusOnOff
    /\ IsSome(identifier)

\* the rule of the specification, step by step: the whitespace-delimited words
RECURSIVE RuleWords(_)
RuleWords(s) ==
    IF s = <<>> THEN <<>>
    ELSE IF is_whitespace(Head(s)) THEN RuleWords(Tail(s))
    ELSE LET stops == {k \in 1..Len(s) : is_whitespace(s[k])}
             n == IF stops = {} THEN Len(s) + 1
                  ELSE CHOOSE k \in stops : \A j \in stops : k <= j
         IN  <<SubSeq(s, 1, n - 1)>> \o RuleWords(SubSeq(s, n, Len(s)))

\* a word with every non-alphanumeric character replaced by an underscore and
\* its first character in upper case
RuleFragment(word) ==
    LET replaced == [k \in 1..Len(word) |->
                        IF is_alphanumeric(word[k]) THEN <<word[k]>> ELSE <<"_">>]
    IN  to_uppercase(replaced[1][1]) \o concat(Tail(replaced))

RECURSIVE RuleFragments(_)
RuleFragments(words) ==
    IF words = <<>> THEN <<>>
    ELSE RuleFragment(Head(words)) \o RuleFragments(Tail(words))

\* the fragments of the words concatenated in order, without the underscores
RuleIdentifier(s) ==
    LET joined == RuleFragments(RuleWords(s))
        kept == {k \in 1..Len(joined) : joined[k] # "_"}
        Nth(n) == CHOOSE k \in kept : Cardinality({j \in kept : j < k}) = n - 1
    IN  [n \in 1..Cardinality(kept) |-> joined[Nth(n)]]

\* C6: for every description, sanitize_identifier returns what the rule gives
\* (split on whitespace, replace the non-alphanumeric characters of a word by
\* '_', uppercase the first character of the fragment, concatenate, remove every
\* '_'); "Target Temp (°C)" gives "TargetTempC"; the result holds no underscore,
\* no whitespace and no other non-alphanumeric character.
C6_FollowsRule ==
    IsSome(identifier) =>
        /\ Unwrap(identifier) = RuleIdentifier(description)
        /\ description = DescTargetTempC => Unwrap(identifier) = <<"T","a","r","g","e","t","T","e","m","p","C">>
        /\ \A k \in 1..Len(Unwrap(identifier)) :
              /\ is_alphanumeric(Unwrap(identifier)[k])
              /\ Unwrap(identifier)[k] # "_"
              /\ ~is_whitespace(Unwrap(identifier)[k])

\* C6 happens: sanitize_identifier returned "TargetTempC" for "Target Temp (°C)"
C6_Witness ==
    /\ description = DescTargetTempC
    /\ identifier = Some(<<"T","a","r","g","e","t","T","e","m","p","C">>)

\* a valid type name: it starts with a letter and holds only letters and digits
TypeNameOk(s) ==
    /\ s # <<>>
    /\ is_alphanumeric(Head(s)) /\ Head(s) \notin Digits
    /\ \A k \in 1..Len(s) : is_alphanumeric(s[k])

\* C7: once the loader has accepted the document, the identifier of every
\* register entry and of every enum label that reaches Ident::new is a non-empty
\* valid type name, and no identifier construction fails.
C7_IdentifiersValid ==
    IsSome(parsed) =>
        /\ pc # "panic"
        /\ \A mod \in {"holding", "input", "coil", "discrete"} :
              \A k \in 1..Len(Registers[mod]) :
                  LET e == Registers[mod][k]
                  IN  /\ (mod \in {"coil", "discrete"} \/ e.kind # "UnsignedShort") =>
                             TypeNameOk(sanitize_identifier(e.description))
                      /\ (mod \in {"holding", "input"} /\ IsEnumWithValues(e)) =>
                             \A l \in DOMAIN Unwrap(e.enum_values) :
                                 TypeNameOk(sanitize_identifier(l))

\* C8: reg() of a generated type returns the reg the document declares for the
\* entry the type was generated from, in every category.
C8_RegIsDeclared ==
    call.op = "reg" =>
        /\ \E k \in 1..Len(document[call.mod]) :
              GeneratedFrom(call.mod, k, call.kind, call.name)
        /\ \A k \in 1..Len(document[call.mod]) :
              GeneratedFrom(call.mod, k, call.kind, call.name) =>
                  call.result = document[call.mod][k].reg

\* C8 happens: reg() of the signed holding register Shift Value returned 5
C8_Witness ==
    /\ call.op = "reg"
    /\ call.mod = "holding"
    /\ call.kind = "i16"
    /\ call.name = sanitize_identifier(DescShiftValue)
    /\ call.result = 5

\* the product of two fixed-point numbers in thousandths, in thousandths
FixMul(a, b) == (a \div 1000) * b + ((a % 1000) * b) \div 1000

\* C9: a Float register decodes a one-word reading [w] to w times the gain of its
\* entry, 1.0 when the document gives none, so decode(w, gain) is
\* decode(w, 1.0) * gain (values and gains in thousandths).
C9_FloatGain ==
    DecodedOne("f32") =>
        /\ \E k \in 1..Len(document[call.mod]) :
              GeneratedFrom(call.mod, k, "f32", call.name)
        /\ \A k \in 1..Len(document[call.mod]) :
              GeneratedFrom(call.mod, k, "f32", call.name) =>
                  LET declared == document[call.mod][k].gain
                      gain == IF declared = None THEN 1000 ELSE Unwrap(declared)
                      w == call.value[1]
                      unscaled == w * 1000
                  IN  /\ call.result[1] = "ok"
                      /\ call.result[2] = FixMul(unscaled, gain)
                      /\ declared = None => call.result[2] = unscaled

\* C9 happens: a register with gain 0.1 decoded [7] to 0.7
C9_Witness ==
    /\ DecodedOne("f32")
    /\ call.value = <<7>>
    /\ call.result = Ok(700)

\* C10: a SignedChar register decodes a one-word reading [w] to the two's
\* complement 16-bit value of w (w below 32768, w - 65536 from there on), with no
\* gain: [0xFFFF] gives -1, [0x0001] gives 1, [0x8000] gives -32768.
C10_SignedDecode ==
    DecodedOne("i16") =>
        LET w == call.value[1]
        IN  /\ call.result[1] = "ok"
            /\ call.result[2] = IF w < 32768 THEN w ELSE w - 65536
            /\ w = 65535 => call.result[2] = -1
            /\ w = 1 => call.result[2] = 1
            /\ w = 32768 => call.result[2] = -32768

\* C10 happens: a signed register decoded [0xFFFF] to -1
C10_Witness ==
    /\ DecodedOne("i16")
    /\ call.value = <<65535>>
    /\ call.result = Ok(-1)


\* C11: a coil or discrete type generated from an entry with labels
\* {true: T, false: F} renders the decoded reading [true] as T and [false] as F,
\* with as_str and with Display alike; the labels ON and OFF give "ON" for true
\* and "OFF" for false.
C11_BoolRendering ==
    (call.op = "as_str" /\ Len(call.value) = 1) =>
        /\ \E k \in 1..Len(document[call.mod]) :
              GeneratedFrom(call.mod, k, "bool", call.name)
        /\ \A k \in 1..Len(document[call.mod]) :
              GeneratedFrom(call.mod, k, "bool", call.name) =>
                  LET values == document[call.mod][k].values
                      label == IF call.value[1] THEN values.true ELSE values.false
                  IN  /\ call.result = Ok(label)
                      /\ call.display = call.result
                      /\ (values.true = "ON" /\ values.false = "OFF") =>
                             call.result = IF call.value[1] THEN Ok("ON") ELSE Ok("OFF")

\* C11 happens: the coil Silent Mode rendered the reading [true] as "ON"
C11_Witness ==
    /\ call.op = "as_str"
    /\ call.mod = "coil"
    /\ call.name = sanitize_identifier(DescSilentMode)
    /\ call.value = <<TRUE>>
    /\ call.result = Ok("ON")
    /\ call.display = Ok("ON")


\* what C12 requires of a document: the four collections, description and reg in
\* every entry, values in every coil and discrete entry, and a recognized tag
C12_Acceptable(doc) ==
    /\ \A c \in {"holding", "coil", "discrete", "input"} : c \in DOMAIN doc
    /\ \A c \in {"holding", "coil", "discrete", "input"} :
          \A k \in 1..Len(doc[c]) :
              /\ "description" \in DOMAIN doc[c][k]
              /\ "reg" \in DOMAIN doc[c][k]
    /\ \A c \in {"coil", "discrete"} :
          \A k \in 1..Len(doc[c]) : "values" \in DOMAIN doc[c][k]
    /\ \A k \in 1..Len(doc.holding) :
          /\ "type" \in DOMAIN doc.holding[k]
          /\ doc.holding[k].type \in {"enum", "float", "i8"}
    /\ \A k \in 1..Len(doc.input) :
          /\ "type" \in DOMAIN doc.input[k]
          /\ doc.input[k].type \in {"enum", "float", "i8", "u16"}

NothingGenerated ==
    /\ holding_generated_enums = <<>>
    /\ holding_generated_structs = <<>>
    /\ coil_generated_structs = <<>>
    /\ discrete_generated_structs = <<>>
    /\ input_generated_enums = <<>>
    /\ input_generated_structs = <<>>
    /\ code = None

\* C12: the loader accepts a document only if it has the four collections,
\* every entry has description and reg (and values in coil and discrete) and
\* every tag is one of enum, float, i8 (and u16 in input only); when one entry
\* lacks a field or has another tag the load fails as a whole: nothing is
\* parsed and no descriptor of any entry is generated.
C12_AllOrNothing ==
    /\ IsSome(parsed) => C12_Acceptable(document)
    /\ (pc # "start" /\ ~C12_Acceptable(document)) =>
          /\ pc = "panic"
          /\ parsed = None
          /\ NothingGenerated

\* C12 happens: the load of a document whose holding collection has a good
\* entry and then an entry tagged u16 has failed
C12_Witness ==
    /\ pc = "panic"
    /\ parsed = None
    /\ document = [GoodDocument EXCEPT
                      !.holding = Append(@, DocEntry("u16", DescHeatSource, 7, None, None))]

\* C13: when ./registers.json cannot be read or does not deserialize, the build
\* script panics in generate_registers: no code is returned and
\* ./src/registers.rs is neither created nor truncated nor written, so an
\* artifact of an earlier build stays as it is.
C13_NoPartialArtifact ==
    [][/\ (pc = "start" /\ ~loads(document)) =>
              /\ pc' = "panic"
              /\ code' = None
              /\ outfile' = outfile
       /\ pc = "panic" => outfile' = outfile]_vars

\* C13 happens: an artifact of an earlier build exists and the build over the
\* unreadable file has aborted
C13_Witness ==
    /\ pc = "panic"
    /\ document = Unreadable
    /\ IsSome(outfile)
    /\ code = None


\* C14: every emitted decode (the From impl of an enum, float, signed, coil or
\* discrete type) called with a reading of fewer or more units than the one it
\* requires panics; it never returns a value from a truncated or padded reading.
C14_WrongCountPanics ==
    (call.op = "from" /\ Len(call.value) # 1) => call.result = Panicked


\* the transport read each loop of the polling task issues
ReadOf(p) ==
    CASE p = "coils" -> "read_coils"
      [] p = "discrete" -> "read_discrete_inputs"
      [] p = "input" -> "read_input_registers"
      [] p = "holding" -> "read_holding_registers"

\* C15: every read the polling task issues (by get_coil, get_discrete, get_input,
\* get_holding, first try and retry) asks for exactly one unit at the address of
\* the register being polled; every value it forwards holds that one unit, and
\* every decode it applies to a forwarded holding value receives exactly the one
\* unit the decode requires, so no decode of the polling task panics when the
\* device answers with the requested count.
C15_OneUnitReads ==
    /\ \A k \in 1..Len(requests) : requests[k].cnt = 1
    /\ (poll_pc \in {"coils", "discrete", "input", "holding"} /\ poll_idx > 1) =>
          \A k \in 1..Len(requests) :
              /\ requests[k].addr = PollList(poll_pc)[poll_idx - 1][2]
              /\ requests[k].read = ReadOf(poll_pc)
    /\ \A k \in 1..Len(channel) :
          channel[k].cat \in {"Holding", "Input"} => Len(channel[k].value) = 1
    /\ \A k \in 1..Len(logged) :
          /\ Len(logged[k].value) = 1
          /\ logged[k].result # Panicked
    /\ poll_pc # "panic"

\* C15 happens: the read of Shift Value answered at the second try with 0xFFFF,
\* which the polling task decoded to -1
C15_Witness ==
    /\ poll_pc = "holding"
    /\ requests = <<[read |-> "read_holding_registers", addr |-> 5, cnt |-> 1],
                    [read |-> "read_holding_registers", addr |-> 5, cnt |-> 1]>>
    /\ logged = <<[name |-> ShiftValue, value |-> <<65535>>, result |-> Ok(-1)]>>


\* the module of ./src/registers.rs a forwarded register belongs to
ModuleOf(cat) ==
    CASE cat = "Coil" -> "coil"
      [] cat = "Discrete" -> "discrete"
      [] cat = "Holding" -> "holding"
      [] cat = "Input" -> "input"

\* the decoded value of a reading as the generated type defines it: the variant
\* of an enum, the gain-scaled number of a float and the signed integer of a
\* signed register (numbers in thousandths), the declared label of a boolean
DecodedValue(item, reading) ==
    CASE item.kind = "enum" -> [type |-> "variant", value |-> from(item, reading)[2]]
      [] item.kind = "f32" -> [type |-> "number", value |-> from(item, reading)[2]]
      [] item.kind = "i16" -> [type |-> "number", value |-> from(item, reading)[2] * 1000]
      [] item.kind = "bool" -> [type |-> "text", value |-> as_str(item, from(item, reading)[2])]

\* C16: for every reading the polling task forwards, the payload the bridge
\* (Home-Assistant or plain MQTT) publishes is the decoded value of the register
\* as its generated type defines it: the gain-scaled number, the signed integer,
\* the enum variant or the declared true/false label.
C16_PublishesDecoded ==
    published.op = "publish" =>
        LET items == module(ModuleOf(published.cat))
            reading == IF published.cat \in {"Coil", "Discrete"}
                       THEN <<published.value>> ELSE published.value
        IN  /\ \E k \in 1..Len(items) : items[k].reg = published.reg
            /\ \A k \in 1..Len(items) :
                  items[k].reg = published.reg =>
                      /\ published.payload.type = DecodedValue(items[k], reading).type
                      /\ published.payload.value = DecodedValue(items[k], reading).value


\* the entries of a collection of the document a type is generated from
IsTypeEntry(e) == e.type \in {"float", "i8"} \/ (e.type = "enum" /\ IsSome(e.enum))
IsEnumEntry(e) == e.type = "enum" /\ IsSome(e.enum)
IsStructEntry(e) == e.type \in {"float", "i8"}

\* the names (with the addresses) of a sequence of entries or of emitted items
NamesOfEntries(entries) ==
    [k \in 1..Len(entries) |->
        <<sanitize_identifier(entries[k].description), entries[k].reg>>]
NamesOfItems(items) == [k \in 1..Len(items) |-> <<items[k].name, items[k].reg>>]

\* C17 as stated: in every category the generated types appear in the artifact
\* in the order of their entries in the document, whatever the mix of enum, float
\* and signed entries.
C17_AsStated ==
    pc = "built" =>
        /\ \A mod \in {"holding", "input"} :
              NamesOfItems(module(mod)) =
                  NamesOfEntries(SelectSeq(document[mod], IsTypeEntry))
        /\ \A mod \in {"coil", "discrete"} :
              NamesOfItems(module(mod)) = NamesOfEntries(document[mod])

\* C17, amended: in the holding and input modules the enums come first, in the
\* order of their entries in the document, and the float and signed types follow,
\* in the order of their entries; in the coil and discrete modules the types are
\* in the order of the entries.
C17_GroupedOrder ==
    pc = "built" =>
        /\ \A mod \in {"holding", "input"} :
              NamesOfItems(module(mod)) =
                  NamesOfEntries(SelectSeq(document[mod], IsEnumEntry))
                      \o NamesOfEntries(SelectSeq(document[mod], IsStructEntry))
        /\ \A mod \in {"coil", "discrete"} :
              NamesOfItems(module(mod)) = NamesOfEntries(document[mod])

\* C17 happens: the holding collection declares a float and then an enum, and
\* the artifact holds the enum and then the float
C17_Witness ==
    /\ pc = "built"
    /\ Len(document.holding) = 2
    /\ document.holding[1].type = "float"
    /\ IsEnumEntry(document.holding[2])
    /\ Len(module("holding")) = 2
    /\ module("holding")[1].kind = "enum"
    /\ module("holding")[2].kind = "f32"


\* the words a codec function requires
WordsRequired(op) == IF op = "register_to_f32" THEN 2 ELSE 1

\* C18: register_to_f32 returns a value for exactly 2 words and register_to_i16
\* and register_to_u16 for exactly 1 word, and for no other number of words; on
\* fewer words, the empty reading included, the call panics and yields no value.
C18_ExactWordCount ==
    returned.op \in {"register_to_f32", "register_to_i16", "register_to_u16"} =>
        /\ Len(register_data) = WordsRequired(returned.op) <=> returned.result # Panicked
        /\ Len(register_data) < WordsRequired(returned.op) => returned.result = Panicked
        /\ returned.result # Panicked => returned.result[1] = "ok"

\* C18 happens: register_to_f32 panicked on one word, and it returned 1.5 (sign 0,
\* exponent 127, fraction 2^22) for the two words 0x3FC0, 0x0000
C18_Witness ==
    \/ /\ returned.op = "register_to_f32"
       /\ Len(register_data) = 1
       /\ returned.result = Panicked
    \/ /\ returned.op = "register_to_f32"
       /\ register_data = <<16320, 0>>
       /\ returned.result = Ok([sign |-> 0, exponent |-> 127, fraction |-> 4194304])

\* C19: register_to_bytes (and read_reg of the example) maps n words to 2n
\* bytes, the high byte (w \div 256) of word i at position 2i and its low byte
\* (w mod 256) at position 2i + 1, counted from 0, in the order of the words;
\* each pair of bytes read big-endian is the word again.
C19_WordsToBytes ==
    returned.op \in {"register_to_bytes", "read_reg"} =>
        LET bytes == returned.result
        IN  /\ Len(bytes) = 2 * Len(register_data)
            /\ \A i \in 1..Len(register_data) :
                  /\ bytes[2 * i - 1] = register_data[i] \div 256
                  /\ bytes[2 * i] = register_data[i] % 256
                  /\ bytes[2 * i - 1] \in 0..255
                  /\ bytes[2 * i] \in 0..255
                  /\ bytes[2 * i - 1] * 256 + bytes[2 * i] = register_data[i]

\* C19 happens: register_to_bytes returned 0x01 0x00 0x00 0xFF for the words
\* 0x0100, 0x00FF
C19_Witness ==
    /\ returned.op = "register_to_bytes"
    /\ register_data = <<256, 255>>
    /\ returned.result = <<1, 0, 0, 255>>


\* the generated enums of a collection that carry the address of an entry
EnumsAt(mod, reg) ==
    {k \in 1..Len(GeneratedEnums(mod)) : GeneratedEnums(mod)[k].reg = reg}

\* C20: the loader accepts an Enum entry, holding or input, without an enum
\* mapping, and no enum, so no variant, is generated for it; an Enum entry with
\* a mapping, the empty one included, gets an enum that ends with the Unknown
\* variant and the wildcard arm that returns it.
C20_AbsentMapping ==
    Generated =>
        \A mod \in {"holding", "input"} :
            \A j \in 1..Len(document[mod]) :
                document[mod][j].type = "enum" =>
                    /\ IsSome(parsed)
                    /\ Registers[mod][j].kind = "Enum"
                    /\ IF document[mod][j].enum = None
                       THEN EnumsAt(mod, document[mod][j].reg) = {}
                       ELSE \E k \in EnumsAt(mod, document[mod][j].reg) :
                               LET e == GeneratedEnums(mod)[k]
                               IN  /\ e.variants[Len(e.variants)] = IdentUnknown
                                   /\ e.match_arms[Len(e.match_arms)] =
                                          [pattern |-> None, variant |-> IdentUnknown]
                                   /\ Unwrap(document[mod][j].enum) = <<>> =>
                                          e.variants = <<IdentUnknown>>

\* C20 happens: Control Method, without a mapping, gave no enum, and Error Code,
\* with the empty mapping, gave an enum of the one variant Unknown
C20_Witness ==
    /\ Generated
    /\ document.holding = <<DocEntry("enum", DescControlMethod, 2, None, None)>>
    /\ document.input = <<DocEntry("enum", DescErrorCode, 10, Some(<<>>), None)>>
    /\ holding_generated_enums = <<>>
    /\ Len(input_generated_enums) = 1
    /\ input_generated_enums[1].variants = <<IdentUnknown>>


\* a well-formed entry of the document with the tag u16
IsUnsignedShortEntry(e) == "type" \in DOMAIN e /\ e.type = "u16" /\ has_required(e)

\* the document without the well-formed u16 entries of its input collection
WithoutUnsignedShort(doc) ==
    LET Other(e) == ~IsUnsignedShortEntry(e)
    IN  [doc EXCEPT !.input = SelectSeq(@, Other)]

\* the enums and structs the loop over parsed.input can leave for a sequence of
\* entries none of which is an UnsignedShort
RECURSIVE InputOutputs(_)
InputOutputs(entries) ==
    IF entries = <<>>
    THEN {[enums |-> <<>>, structs |-> <<>>]}
    ELSE LET entry == entries[Len(entries)]
             before == InputOutputs(SubSeq(entries, 1, Len(entries) - 1))
         IN  CASE entry.kind = "Enum" ->
                    IF IsSome(entry.enum_values)
                    THEN {[enums |-> generate_enum(b.enums,
                                                   sanitize_identifier(entry.description),
                                                   Unwrap(entry.enum_values), entry.reg, o),
                           structs |-> b.structs] :
                             b \in before, o \in IterationOrders(Unwrap(entry.enum_values))}
                    ELSE before
               [] entry.kind = "Float" ->
                    {[enums |-> b.enums, structs |-> Append(b.structs, float_struct(entry))] :
                        b \in before}
               [] entry.kind = "SignedChar" ->
                    {[enums |-> b.enums, structs |-> Append(b.structs, signed_struct(entry))] :
                        b \in before}

\* C21: an input entry with the tag u16 deserializes (to UnsignedShort) and the
\* document loads exactly when it loads without that entry; once the code is
\* emitted the input module holds no item for the entry (none carries its
\* address), and the enums and structs of the input module are ones the generator
\* gives for the document without its u16 entries.
C21_UnsignedShortNoArtifact ==
    /\ ("input" \in DOMAIN document /\ pc # "idle") =>
          /\ \A k \in 1..Len(document.input) :
                IsUnsignedShortEntry(document.input[k]) =>
                    /\ IsSome(InputRegister(document.input[k]))
                    /\ Unwrap(InputRegister(document.input[k])).kind = "UnsignedShort"
          /\ loads(document) = loads(WithoutUnsignedShort(document))
    /\ pc \in {"write", "built"} =>
          /\ \A k \in 1..Len(Registers.input) :
                Registers.input[k].kind = "UnsignedShort" =>
                    \A j \in 1..Len(Unwrap(code)) :
                        Unwrap(code)[j].mod = "input" =>
                            \A i \in 1..Len(Unwrap(code)[j].items) :
                                Unwrap(code)[j].items[i].reg # Registers.input[k].reg
          /\ [enums |-> input_generated_enums, structs |-> input_generated_structs]
                \in InputOutputs(Unwrap(from_str(WithoutUnsignedShort(document))).input)
          /\ \E j \in 1..Len(Unwrap(code)) :
                /\ Unwrap(code)[j].mod = "input"
                /\ Unwrap(code)[j].items = input_generated_enums \o input_generated_structs

\* C21 happens: the input collection is Flow Rate (u16) and Outdoor Temp (i8), and
\* the written input module holds the one struct of Outdoor Temp
C21_Witness ==
    /\ pc = "built"
    /\ Len(Registers.input) = 2
    /\ Registers.input[1].kind = "UnsignedShort"
    /\ Registers.input[2].kind = "SignedChar"
    /\ input_generated_enums = <<>>
    /\ input_generated_structs = <<signed_struct(Registers.input[2])>>
    /\ outfile = code


\* C22: at most one request is on the bus at any time; the task whose request
\* is on the bus holds the guard of the context mutex for as long as the request
\* is there, whichever task and whichever bus function issued it, and the mutex
\* is unlocked whenever no request is on the bus, so also after a request that
\* timed out.
C22_OneRequestInFlight ==
    /\ Len(bus) <= 1
    /\ \A t \in Tasks : (calls[t].pc = "request") <=> (ctx = Some(t))
    /\ \A t \in Tasks : calls[t].pc = "request" => bus = <<request(t, calls[t])>>
    /\ \A k \in 1..Len(bus) : calls[bus[k].task].pc = "request"
    /\ (bus = <<>>) <=> (ctx = Some(Unlocked))

\* C22 happens: the command task waits for the mutex with its write while a read
\* of the polling task, the second attempt after a failed first, is on the bus
C22_Witness ==
    /\ ctx = Some("poller")
    /\ calls["poller"].pc = "request"
    /\ calls["poller"].op = "get_coil"
    /\ calls["poller"].n = 2
    /\ calls["command"].pc = "attempt"
    /\ calls["command"].op = "set_coil"
    /\ Len(bus) = 1


GetFunctions == {"get_coil", "get_discrete", "get_holding", "get_input"}

\* what a read of one unit of the device gives the caller of the function
Read(op) ==
    IF op \in {"get_coil", "get_discrete"}
    THEN device[bus_function(op)] ELSE <<device[bus_function(op)]>>

\* C23: a call of get_coil, get_discrete, get_holding or get_input puts at most
\* two reads on the bus, one per attempt; the second attempt begins only from
\* the sleep that follows a first attempt that gave no answer; the call returns
\* Ok with the value read as soon as an attempt is answered, and Err exactly
\* when it is past its second attempt without an answer; without a bus context
\* it returns Err and puts nothing on the bus.
C23_TwoAttempts ==
    /\ [](LET c == calls["caller"]
          IN  c.op \in GetFunctions =>
                /\ c.n \in {1, 2}
                /\ Len(c.requests) <= c.n
                /\ \A k \in 1..Len(c.requests) :
                      c.requests[k] = [task |-> "caller", fn |-> bus_function(c.op),
                                       addr |-> c.reg, arg |-> <<1>>]
                /\ ctx # None /\ c.pc \in {"sleep", "returned"} => Len(c.requests) = c.n
                /\ c.pc = "sleep" => c.n = 1 /\ ~is_answer(c.outcome)
                /\ c.pc = "returned" =>
                      /\ is_answer(c.outcome) <=> c.result = Ok(Read(c.op))
                      /\ c.result = Err <=> c.n = 2 /\ ~is_answer(c.outcome)
                      /\ c.result = Err \/ c.result = Ok(Read(c.op))
                /\ ctx = None => c.requests = <<>> /\ bus = <<>> /\ c.result # Ok(Read(c.op)))
    /\ [][calls["caller"].op \in GetFunctions /\ calls'["caller"].n = 2
            => calls["caller"].n = 2 \/ calls["caller"].pc = "sleep"]_vars

\* C23 happens: a read returned the value of its second attempt
C23_Witness ==
    /\ calls["caller"].op = "get_holding"
    /\ calls["caller"].pc = "returned"
    /\ calls["caller"].n = 2
    /\ Len(calls["caller"].requests) = 2
    /\ calls["caller"].result = Ok(<<65535>>)


\* C24: a call of set_coil or set_register that has returned gave Ok(()) exactly
\* when its write was answered by the device within the timeout, and
\* Err("set failed ...") when the request timed out, the transport failed, the
\* device answered with an exception, or there is no bus context.
C24_SetReportsFailure ==
    LET c == calls["caller"]
    IN  c.op \in {"set_coil", "set_register"} /\ c.pc = "returned" =>
            /\ c.result = Ok(<<>>) <=> c.outcome = Ok(Ok(Ok(<<>>)))
            /\ c.result = Err <=> c.outcome \in {<<>>, Ok(Ok(Err)), Ok(Err), Err}


\* the registers of a polling cycle: the four lists of ThermaV::default, one
\* after the other
CycleEntries(p) == [k \in 1..Len(PollList(p)) |-> <<PollCategory(p), PollList(p)[k][2]>>]
CycleOrder ==
    CycleEntries("coils") \o CycleEntries("discrete") \o CycleEntries("input")
        \o CycleEntries("holding")
CycleBefore(p) ==
    CASE p = "coils" -> 0
      [] p = "discrete" -> Len(coils)
      [] p = "input" -> Len(coils) + Len(discrete_registers)
      [] p = "holding" -> Len(coils) + Len(discrete_registers) + Len(input_registers)
InCycle == poll_pc \in {"coils", "discrete", "input", "holding"}

\* C25: the get calls of a polling cycle are, one call per register, the coils,
\* the discrete inputs, the input registers and the holding registers of the
\* configuration in that order: what has been read so far is always the
\* beginning of that list, and the cycle ends with the whole list read. A read
\* that returned Err and a send that failed are followed by the next register
\* of the same cycle like a successful one.
C25_CycleReadsAllInOrder ==
    /\ [](/\ LET all == CycleOrder
             IN  /\ Len(polled) <= Len(all)
                 /\ polled = SubSeq(all, 1, Len(polled))
                 /\ poll_pc = "while" => Len(polled) = Len(all)
                 /\ poll_pc = "done" => Len(polled) \in {0, Len(all)}
          /\ poll_pc # "panic"
          /\ InCycle =>
                /\ Len(polled) = CycleBefore(poll_pc) + poll_idx
                                    - (IF calls["poller"].pc = "none" THEN 1 ELSE 0)
                /\ calls["poller"].pc # "none" =>
                      /\ calls["poller"].op = PollFunction(poll_pc)
                      /\ polled[Len(polled)] = <<PollCategory(poll_pc), calls["poller"].reg>>)
    /\ [][InCycle /\ calls["poller"].pc = "returned" /\ calls'["poller"].pc # "returned"
            => poll_pc' = poll_pc /\ poll_idx' = poll_idx + 1]_vars

\* C25 happens: the read of the last register of a cycle returned Err after the
\* receiver was dropped, with every register of the cycle read
C25_Witness ==
    /\ poll_pc = "holding"
    /\ calls["poller"].pc = "returned"
    /\ calls["poller"].result = Err
    /\ "bridge" \in stopped
    /\ Len(polled) = Len(CycleOrder)


\* the polling task leaves the match on the result of a get call
Forwards == InCycle /\ calls["poller"].pc = "returned" /\ calls'["poller"].pc = "none"

\* the channel after the step is the channel before it with one message for
\* the read that returned: its category, its address and the value read
SentOne ==
    /\ Len(channel') = Len(channel) + 1
    /\ SubSeq(channel', 1, Len(channel)) = channel
    /\ LET m == channel'[Len(channel')]
           c == calls["poller"]
       IN  /\ m.cat = PollCategory(poll_pc)
           /\ m.reg = c.reg
           /\ c.result = Ok(m.value)
           /\ m.value = Read(c.op)

\* the receiver took the oldest message
ReceivedOne == channel # <<>> /\ channel' = Tail(channel)

\* the receiver was dropped, and the messages it held with it
ReceiverDropped == "bridge" \in stopped' /\ "bridge" \notin stopped /\ channel' = <<>>

C27_ShutdownTerminates ==
    /\ [][/\ interrupted => interrupted'
          /\ poll_pc # "coils" /\ poll_pc' = "coils" =>
                ~interrupted /\ poll_pc \in {"init", "while"}
          /\ poll_pc = "done" => poll_pc' = "done" /\ calls'["poller"] = calls["poller"]
          /\ poll_pc' = "done" <=> "poller" \in stopped'
          /\ stopped \subseteq stopped'
          /\ "command" \in stopped => calls'["command"] = calls["command"]]_vars
    /\ interrupted ~> (stopped = {"poller", "command", "bridge"})

\* C27 happens: the flag is set while the polling task waits in send on a full
\* channel whose receiver is still there
C27_Witness ==
    /\ interrupted
    /\ InCycle
    /\ calls["poller"].pc = "returned"
    /\ is_ok(calls["poller"].result)
    /\ Len(channel) = ChannelCapacity
    /\ stopped = {}


\* the read initialize_bus puts on the bus
EmergencyStopRead ==
    [task |-> "poller", fn |-> "read_coils", addr |-> registers("coil", EmergencyStop).reg,
     arg |-> <<1>>]

\* C28: until the polling task leaves its initialization it has called no get
\* function and sent nothing, and what it has put on the bus are reads of one
\* unit of the EmergencyStop coil; it leaves the initialization, for the while
\* loop, exactly when initialize_bus has returned with three such reads made,
\* and whatever the three reads gave, the while loop can then begin.
C28_InitializationFirst ==
    /\ [](poll_pc = "init" =>
            LET c == calls["poller"]
            IN  /\ polled = <<>>
                /\ channel = <<>>
                /\ c.op \in {"none", "initialize_bus"}
                /\ Len(c.requests) <= 3
                /\ \A k \in 1..Len(c.requests) : c.requests[k] = EmergencyStopRead
                /\ \A k \in 1..Len(bus) : bus[k].task = "poller" => bus[k] = EmergencyStopRead
                /\ c.pc = "returned" => Len(c.requests) = 3 /\ ENABLED While)
    /\ [][poll_pc = "init" /\ poll_pc' # "init" =>
            /\ calls["poller"].op = "initialize_bus"
            /\ calls["poller"].pc = "returned"
            /\ Len(calls["poller"].requests) = 3
            /\ poll_pc' = IF interrupted THEN "done" ELSE "coils"]_vars

\* C28 happens: initialize_bus has returned after a third read that timed out,
\* and the flag is not set
C28_Witness ==
    /\ poll_pc = "init"
    /\ calls["poller"].pc = "returned"
    /\ calls["poller"].outcome = Err
    /\ Len(calls["poller"].requests) = 3
    /\ ~interrupted


\* C30: the mqtt -> modbus task takes the messages in their order of arrival,
\* each after the call made for the one before it has returned, whatever that
\* call returned; a message on "ThermaV/thermav.dhw/temperature/set" begins one
\* call of set_coil, which puts exactly one write on the bus, and a message on
\* any other topic begins no call, so nothing of the task is on the bus; the
\* task begins a call only for a message, and a write that failed leaves it
\* able to take the next message.
C30_OnlySetTopicWrites ==
    /\ [](LET c == calls["command"]
          IN  /\ c.op \in {"none", "set_coil"}
              /\ Len(c.requests) <= 1
              /\ \A k \in 1..Len(c.requests) :
                    /\ c.requests[k].fn = "write_single_coil"
                    /\ c.requests[k].addr = SetReg
                    /\ c.requests[k].arg = c.value
              /\ c.pc = "returned" => Len(c.requests) = 1
              /\ c.op = "none" => \A k \in 1..Len(bus) : bus[k].task # "command"
              /\ "command" \in stopped => interrupted
              /\ c.pc = "returned" /\ mqtt_rx # <<>> /\ ~interrupted => ENABLED CommandReceive)
    /\ [][/\ mqtt_rx' # mqtt_rx =>
                /\ mqtt_rx' = Tail(mqtt_rx)
                /\ calls["command"].pc \in {"none", "returned"}
                /\ calls'["command"] =
                      IF Head(mqtt_rx)[1] = "ThermaV/thermav.dhw/temperature/set"
                      THEN begin("set_coil", SetReg, <<Head(mqtt_rx)[2] = "true">>)
                      ELSE IdleCall
          /\ calls["command"].pc \in {"none", "returned"} /\ calls'["command"].pc = "attempt"
                => mqtt_rx' # mqtt_rx]_vars

\* C30 happens: the write for the first message timed out, and a message on
\* another topic waits
C30_Witness ==
    /\ calls["command"].pc = "returned"
    /\ calls["command"].result = Err
    /\ Len(calls["command"].requests) = 1
    /\ mqtt_rx # <<>>
    /\ Head(mqtt_rx)[1] # SetTopic
    /\ ~interrupted


\* String::as_bytes: the UTF-8 encoding of a string given as code points
RECURSIVE as_bytes(_)
as_bytes(s) ==
    IF s = <<>> THEN <<>>
    ELSE LET c == Head(s)
         IN  (IF c < 128 THEN <<c>>
              ELSE IF c < 2048 THEN <<192 + (c \div 64), 128 + (c % 64)>>
              ELSE <<224 + (c \div 4096), 128 + ((c \div 64) % 64), 128 + (c % 64)>>)
                 \o as_bytes(Tail(s))

\* the event loop takes a publish
Dispatches == dispatched' # dispatched

\* what the claim says of callbacks and topics: the broker has a subscription
\* only for topics whose callback is stored; a publish invokes at most one
\* callback, the one stored for exactly its topic at that moment, with its
\* topic, and none if no callback is stored for exactly its topic; an insert
\* of subscribe makes its callback the one of its topic and leaves the others
CallbackByExactTopic ==
    /\ [](subscriptions \subseteq DOMAIN callbacks)
    /\ [][/\ Dispatches =>
                LET e == dispatched'[1]
                IN  /\ Len(e.invoked) = IF e.topic \in DOMAIN callbacks THEN 1 ELSE 0
                    /\ e.topic \in subscriptions => Len(e.invoked) = 1
                    /\ \A k \in 1..Len(e.invoked) :
                          /\ e.invoked[k].callback = callbacks[e.topic]
                          /\ e.invoked[k].topic = e.topic
          /\ callbacks' # callbacks =>
                /\ subscribe_call # None
                /\ DOMAIN callbacks' = DOMAIN callbacks \cup {subscribe_call[1].topic}
                /\ \A t \in DOMAIN callbacks' :
                      callbacks'[t] = IF t = subscribe_call[1].topic
                                      THEN subscribe_call[1].callback ELSE callbacks[t]]_vars

\* C29, as stated: subscribe stores the callback before its request is sent,
\* so a publish on a subscribed topic invokes exactly once the callback stored
\* for exactly its topic, with the topic and the payload that were received; a
\* publish without such a callback invokes none; a later subscribe to a topic
\* replaces its callback.
C29_AsStated ==
    /\ CallbackByExactTopic
    /\ [][Dispatches =>
            \A k \in 1..Len(dispatched'[1].invoked) :
                as_bytes(dispatched'[1].invoked[k].payload) = dispatched'[1].payload]_vars

\* C29, amended: as above, but the payload the callback gets is the received
\* payload decoded as UTF-8 with every invalid sequence replaced by U+FFFD; it
\* is the received payload exactly when that is valid UTF-8.
C29_DispatchByExactTopic ==
    /\ CallbackByExactTopic
    /\ [][Dispatches =>
            \A k \in 1..Len(dispatched'[1].invoked) :
                LET text == dispatched'[1].invoked[k].payload
                    received == dispatched'[1].payload
                IN  /\ text = from_utf8_lossy(received)
                    /\ as_bytes(text) = received <=> 65533 \notin Range(text)]_vars

\* C29 happens: a publish with a payload that is not UTF-8 arrived on a topic
\* the broker has a subscription for and the callback stored for the topic was
\* invoked; another subscribe to the topic is about to replace that callback
C29_Witness ==
    /\ dispatched # None
    /\ dispatched[1].topic = SetTopic
    /\ dispatched[1].payload = <<49, 255>>
    /\ dispatched[1].invoked =
           <<[callback |-> "g", topic |-> SetTopic, payload |-> <<49, 65533>>]>>
    /\ SetTopic \in subscriptions
    /\ subscribe_call = Some([topic |-> SetTopic, callback |-> "f", pc |-> 1])


=============================================================================
